---------------------------- MODULE Spec2Model ----------------------------
(***************************************************************************)
(* Model of the schema-suggestion engine of BuildML                        *)
(* (lib/services/schemaGenerator.ts, src/unnamed/part_000 lines 1-292):    *)
(* the schema catalog, the matcher generateSchemas, the validator          *)
(* validateSchema, the formatters formatSchema and schemaToString; and of  *)
(* the model creation wizard CreateModelContent that uses them             *)
(* (src/unnamed/part_000 lines 294-873).                                   *)
(*                                                                         *)
(* A JavaScript string is the sequence of its UTF-16 code units; JS("..")  *)
(* gives the string that a literal of the source denotes.  The strings     *)
(* written without JS are labels of the model: the tag of a value, the     *)
(* position of a call, and the values of step, status and dataSourceType,  *)
(* which the program only compares with literals.                          *)
(* A JSON / plain JavaScript value is a tagged record                      *)
(* [t |-> kind, v |-> payload]; an object's payload is the sequence of its *)
(* <<key, value>> pairs in the order its keys are enumerated; a number is  *)
(* [t |-> "number", v |-> m, e |-> k], the decimal m * 10^k.               *)
(***************************************************************************)
EXTENDS Integers, Sequences, FiniteSets, TLC

VARIABLES
    problemDescription,  \* generateSchemas: its argument
    pc,                  \* generateSchemas: position ("entry", "loop", "done")
    lowerDescription,    \* generateSchemas: const lowerDescription
    idx,                 \* generateSchemas: number of catalog entries the for loop has evaluated
    bestMatch,           \* generateSchemas: let bestMatch (0 is null, else the entry's position)
    highestPriority,     \* generateSchemas: let highestPriority
    result,              \* generateSchemas: the returned SchemaSet (NoResult before the return)
    schemaString,        \* validateSchema: its argument
    vpc,                 \* validateSchema: position ("entry", "parse", "done")
    jsonParseCalls,      \* validateSchema: number of JSON.parse calls made
    vresult,             \* validateSchema: the returned record (NoResult before the return)
    heap,                \* the objects and arrays allocated so far (an object's identity is its position)
    calls,               \* the calls of generateSchemas a caller has made, with what each returned
    mutations,           \* number of in-place changes the caller has made to returned objects
    fcall,               \* the formatter called ("formatSchema", "schemaToString")
    farg,                \* formatSchema / schemaToString: its argument
    fpc,                 \* formatter call: position ("entry", "formatted", "done")
    formatted,           \* formatter call: the string returned
    reparsed,            \* validateSchema of the returned string (NoResult before it is read back)
    step,                \* wizard: the step shown ("1", "2", "3", "training", "success")
    modelId,             \* wizard: id of the created record (0 is null)
    modelName,           \* wizard: the model name field
    nameManuallyEdited,  \* wizard: the name field was typed into
    inputSchemaString,   \* wizard: text of the input schema editor
    outputSchemaString,  \* wizard: text of the output schema editor
    inputSchemaError,    \* wizard: error shown for the input schema (Null or a message)
    outputSchemaError,   \* wizard: error shown for the output schema (Null or a message)
    dataSourceType,      \* wizard: "csv" or "s3"
    csvFile,             \* wizard: the chosen file (Null or a File)
    s3BucketUrl,         \* wizard: S3 form field
    s3Region,            \* wizard: S3 form field
    s3AccessKeyId,       \* wizard: S3 form field
    s3SecretAccessKey,   \* wizard: S3 form field
    user,                \* useAuth().user (Null or a user)
    pendingAddDoc,       \* the addDoc calls awaiting their result, each with the record it was given
    docs,                \* the records of the "models" collection, by id
    trainingStarted,     \* the ids startTraining was called with, in order
    rendered,            \* wizard: the step and modelId of the last render
    subscribedTo,        \* id of the record the snapshot listener is attached to (0: no listener)
    lastSnapshot,        \* status in the last snapshot given to the current listener ("none" before the first)
    timer,               \* id of the record the redirect timer is running for (0: no timer)
    effectsFor,          \* wizard: the step and modelId the effects have last run for
    route,               \* the route last given to router.push ("create": none yet, the wizard's own page)
    mounted,             \* the wizard page is mounted (the router has not replaced it yet)
    edits,               \* number of edits the user has made to form fields
    clicks               \* number of clicks on Create Model that started a submit

vars == <<problemDescription, pc, lowerDescription, idx, bestMatch, highestPriority,
          result, schemaString, vpc, jsonParseCalls, vresult, heap, calls, mutations,
          fcall, farg, fpc, formatted, reparsed,
          step, modelId, modelName, nameManuallyEdited, inputSchemaString, outputSchemaString,
          inputSchemaError, outputSchemaError, dataSourceType, csvFile, s3BucketUrl, s3Region,
          s3AccessKeyId, s3SecretAccessKey, user, pendingAddDoc, docs, trainingStarted, rendered,
          subscribedTo, lastSnapshot, timer, effectsFor, route, mounted, edits, clicks>>

genVars == <<problemDescription, pc, lowerDescription, idx, bestMatch, highestPriority, result>>

valVars == <<schemaString, vpc, jsonParseCalls, vresult>>

heapVars == <<heap, calls, mutations>>

fmtVars == <<fcall, farg, fpc, formatted, reparsed>>

wizVars ==
    <<step, modelId, modelName, nameManuallyEdited, inputSchemaString, outputSchemaString,
      inputSchemaError, outputSchemaError, dataSourceType, csvFile, s3BucketUrl, s3Region,
      s3AccessKeyId, s3SecretAccessKey, user, pendingAddDoc, docs, trainingStarted, rendered,
      subscribedTo, lastSnapshot, timer, effectsFor, route, mounted, edits, clicks>>

NoResult == [t |-> "undefined", v |-> "undefined"]

(***************************************************************************)
(* Strings: a JavaScript string is the sequence of its UTF-16 code units.  *)
(***************************************************************************)
\* The characters U+0020 to U+005F and U+0061 to U+007E, in the order of their codes
\* (U+0060 cannot be written in a string of a module).
Characters ==
    " !\"#$%&'()*+,-./0123456789:;<=>?@ABCDEFGHIJKLMNOPQRSTUVWXYZ[\\]^_abcdefghijklmnopqrstuvwxyz{|}~"

\* the code unit of each character that a string of this module is written with
CodeUnitOf ==
    ("\t" :> 9) @@ ("\n" :> 10)
    @@ [c \in {SubSeq(Characters, p, p) : p \in 1..Len(Characters)} |->
          CHOOSE n \in (32..95) \cup (97..126) :
              SubSeq(Characters, n - 31 - (n \div 97), n - 31 - (n \div 97)) = c]

\* the JavaScript string that a string literal of the source denotes
JS(literal) == [i \in 1..Len(literal) |-> CodeUnitOf[SubSeq(literal, i, i)]]

\* the code unit at position i (-1 past the end)
CharAt(s, i) == IF 1 <= i /\ i <= Len(s) THEN s[i] ELSE -1

\* WhiteSpace and LineTerminator of ECMA-262, which String.prototype.trim strips and \s
\* matches: U+0009 to U+000D, U+0020, U+00A0, U+1680, U+2000 to U+200A, U+2028, U+2029,
\* U+202F, U+205F, U+3000, U+FEFF
IsWhiteSpace(c) ==
    c \in (9..13) \cup {32, 160, 5760} \cup (8192..8202) \cup {8232, 8233, 8239, 8287, 12288, 65279}

\* the code points of a string: a lead surrogate followed by a trail surrogate is one
\* code point, any other code unit is its own
RECURSIVE CodePoints(_)
CodePoints(s) ==
    IF Len(s) = 0 THEN <<>>
    ELSE IF Len(s) >= 2 /\ 55296 <= s[1] /\ s[1] <= 56319 /\ 56320 <= s[2] /\ s[2] <= 57343
    THEN <<65536 + (s[1] - 55296) * 1024 + (s[2] - 56320)>> \o CodePoints(SubSeq(s, 3, Len(s)))
    ELSE <<s[1]>> \o CodePoints(Tail(s))

\* the code units of a sequence of code points
RECURSIVE CodeUnits(_)
CodeUnits(points) ==
    IF Len(points) = 0 THEN <<>>
    ELSE (IF points[1] < 65536 THEN <<points[1]>>
          ELSE <<55296 + ((points[1] - 65536) \div 1024), 56320 + ((points[1] - 65536) % 1024)>>)
         \o CodeUnits(Tail(points))

\* c lies in one of the ranges <<first, last>>
InRanges(c, ranges) == \E i \in 1..Len(ranges) : ranges[i][1] <= c /\ c <= ranges[i][2]

\* The simple case mapping of a code point from a table of <<first, last, delta, step>>:
\* the code points first, first + step, ... last map to themselves plus delta.
MappedBy(c, table) ==
    LET hits == {i \in 1..Len(table) :
                    /\ table[i][1] <= c
                    /\ c <= table[i][2]
                    /\ (c - table[i][1]) % table[i][4] = 0}
    IN IF hits = {} THEN c ELSE c + table[CHOOSE i \in hits : TRUE][3]

\* Lowercase_Mapping of the Unicode Character Database, version 17.0, for the code points
\* above U+007F
\* (without U+0130 and U+03A3, whose mapping is not a single fixed code point)
LowerCaseRanges ==
    << <<192, 214, 32, 1>>, <<216, 222, 32, 1>>, <<256, 302, 1, 2>>, <<306, 310, 1, 2>>,
       <<313, 327, 1, 2>>, <<330, 374, 1, 2>>, <<376, 376, -121, 1>>, <<377, 381, 1, 2>>,
       <<385, 385, 210, 1>>, <<386, 388, 1, 2>>, <<390, 390, 206, 1>>, <<391, 391, 1, 1>>,
       <<393, 394, 205, 1>>, <<395, 395, 1, 1>>, <<398, 398, 79, 1>>, <<399, 399, 202, 1>>,
       <<400, 400, 203, 1>>, <<401, 401, 1, 1>>, <<403, 403, 205, 1>>, <<404, 404, 207, 1>>,
       <<406, 406, 211, 1>>, <<407, 407, 209, 1>>, <<408, 408, 1, 1>>, <<412, 412, 211, 1>>,
       <<413, 413, 213, 1>>, <<415, 415, 214, 1>>, <<416, 420, 1, 2>>, <<422, 422, 218, 1>>,
       <<423, 423, 1, 1>>, <<425, 425, 218, 1>>, <<428, 428, 1, 1>>, <<430, 430, 218, 1>>,
       <<431, 431, 1, 1>>, <<433, 434, 217, 1>>, <<435, 437, 1, 2>>, <<439, 439, 219, 1>>,
       <<440, 440, 1, 1>>, <<444, 444, 1, 1>>, <<452, 452, 2, 1>>, <<453, 453, 1, 1>>,
       <<455, 455, 2, 1>>, <<456, 456, 1, 1>>, <<458, 458, 2, 1>>, <<459, 475, 1, 2>>,
       <<478, 494, 1, 2>>, <<497, 497, 2, 1>>, <<498, 500, 1, 2>>, <<502, 502, -97, 1>>,
       <<503, 503, -56, 1>>, <<504, 542, 1, 2>>, <<544, 544, -130, 1>>, <<546, 562, 1, 2>>,
       <<570, 570, 10795, 1>>, <<571, 571, 1, 1>>, <<573, 573, -163, 1>>,
       <<574, 574, 10792, 1>>, <<577, 577, 1, 1>>, <<579, 579, -195, 1>>, <<580, 580, 69, 1>>,
       <<581, 581, 71, 1>>, <<582, 590, 1, 2>>, <<880, 882, 1, 2>>, <<886, 886, 1, 1>>,
       <<895, 895, 116, 1>>, <<902, 902, 38, 1>>, <<904, 906, 37, 1>>, <<908, 908, 64, 1>>,
       <<910, 911, 63, 1>>, <<913, 929, 32, 1>>, <<932, 939, 32, 1>>, <<975, 975, 8, 1>>,
       <<984, 1006, 1, 2>>, <<1012, 1012, -60, 1>>, <<1015, 1015, 1, 1>>,
       <<1017, 1017, -7, 1>>, <<1018, 1018, 1, 1>>, <<1021, 1023, -130, 1>>,
       <<1024, 1039, 80, 1>>, <<1040, 1071, 32, 1>>, <<1120, 1152, 1, 2>>,
       <<1162, 1214, 1, 2>>, <<1216, 1216, 15, 1>>, <<1217, 1229, 1, 2>>, <<1232, 1326, 1, 2>>,
       <<1329, 1366, 48, 1>>, <<4256, 4293, 7264, 1>>, <<4295, 4295, 7264, 1>>,
       <<4301, 4301, 7264, 1>>, <<5024, 5103, 38864, 1>>, <<5104, 5109, 8, 1>>,
       <<7305, 7305, 1, 1>>, <<7312, 7354, -3008, 1>>, <<7357, 7359, -3008, 1>>,
       <<7680, 7828, 1, 2>>,
       <<7838, 7838, -7615, 1>>, <<7840, 7934, 1, 2>>, <<7944, 7951, -8, 1>>,
       <<7960, 7965, -8, 1>>, <<7976, 7983, -8, 1>>, <<7992, 7999, -8, 1>>,
       <<8008, 8013, -8, 1>>, <<8025, 8031, -8, 2>>, <<8040, 8047, -8, 1>>,
       <<8072, 8079, -8, 1>>, <<8088, 8095, -8, 1>>, <<8104, 8111, -8, 1>>,
       <<8120, 8121, -8, 1>>, <<8122, 8123, -74, 1>>, <<8124, 8124, -9, 1>>,
       <<8136, 8139, -86, 1>>, <<8140, 8140, -9, 1>>, <<8152, 8153, -8, 1>>,
       <<8154, 8155, -100, 1>>, <<8168, 8169, -8, 1>>, <<8170, 8171, -112, 1>>,
       <<8172, 8172, -7, 1>>, <<8184, 8185, -128, 1>>, <<8186, 8187, -126, 1>>,
       <<8188, 8188, -9, 1>>, <<8486, 8486, -7517, 1>>, <<8490, 8490, -8383, 1>>,
       <<8491, 8491, -8262, 1>>, <<8498, 8498, 28, 1>>, <<8544, 8559, 16, 1>>,
       <<8579, 8579, 1, 1>>, <<9398, 9423, 26, 1>>, <<11264, 11311, 48, 1>>,
       <<11360, 11360, 1, 1>>, <<11362, 11362, -10743, 1>>, <<11363, 11363, -3814, 1>>,
       <<11364, 11364, -10727, 1>>, <<11367, 11371, 1, 2>>, <<11373, 11373, -10780, 1>>,
       <<11374, 11374, -10749, 1>>, <<11375, 11375, -10783, 1>>, <<11376, 11376, -10782, 1>>,
       <<11378, 11378, 1, 1>>, <<11381, 11381, 1, 1>>, <<11390, 11391, -10815, 1>>,
       <<11392, 11490, 1, 2>>, <<11499, 11501, 1, 2>>, <<11506, 11506, 1, 1>>,
       <<42560, 42604, 1, 2>>, <<42624, 42650, 1, 2>>, <<42786, 42798, 1, 2>>,
       <<42802, 42862, 1, 2>>, <<42873, 42875, 1, 2>>, <<42877, 42877, -35332, 1>>,
       <<42878, 42886, 1, 2>>, <<42891, 42891, 1, 1>>, <<42893, 42893, -42280, 1>>,
       <<42896, 42898, 1, 2>>, <<42902, 42920, 1, 2>>, <<42922, 42922, -42308, 1>>,
       <<42923, 42923, -42319, 1>>, <<42924, 42924, -42315, 1>>, <<42925, 42925, -42305, 1>>,
       <<42926, 42926, -42308, 1>>, <<42928, 42928, -42258, 1>>, <<42929, 42929, -42282, 1>>,
       <<42930, 42930, -42261, 1>>, <<42931, 42931, 928, 1>>, <<42932, 42946, 1, 2>>,
       <<42948, 42948, -48, 1>>, <<42949, 42949, -42307, 1>>, <<42950, 42950, -35384, 1>>,
       <<42951, 42953, 1, 2>>, <<42955, 42955, -42343, 1>>, <<42956, 42958, 1, 2>>,
       <<42960, 42970, 1, 2>>, <<42972, 42972, -42561, 1>>,
       <<42997, 42997, 1, 1>>, <<65313, 65338, 32, 1>>, <<66560, 66599, 40, 1>>,
       <<66736, 66771, 40, 1>>, <<66928, 66938, 39, 1>>, <<66940, 66954, 39, 1>>,
       <<66956, 66962, 39, 1>>, <<66964, 66965, 39, 1>>, <<68736, 68786, 64, 1>>,
       <<68944, 68965, 32, 1>>,
       <<71840, 71871, 32, 1>>, <<93760, 93791, 32, 1>>, <<93856, 93880, 27, 1>>,
       <<125184, 125217, 34, 1>> >>

\* Uppercase_Mapping (version 17.0) for the code points above U+007F that map to one
\* code point
UpperCaseRanges ==
    << <<181, 181, 743, 1>>, <<224, 246, -32, 1>>, <<248, 254, -32, 1>>, <<255, 255, 121, 1>>,
       <<257, 303, -1, 2>>, <<305, 305, -232, 1>>, <<307, 311, -1, 2>>, <<314, 328, -1, 2>>,
       <<331, 375, -1, 2>>, <<378, 382, -1, 2>>, <<383, 383, -300, 1>>, <<384, 384, 195, 1>>,
       <<387, 389, -1, 2>>, <<392, 392, -1, 1>>, <<396, 396, -1, 1>>, <<402, 402, -1, 1>>,
       <<405, 405, 97, 1>>, <<409, 409, -1, 1>>, <<410, 410, 163, 1>>, <<411, 411, 42561, 1>>,
       <<414, 414, 130, 1>>,
       <<417, 421, -1, 2>>, <<424, 424, -1, 1>>, <<429, 429, -1, 1>>, <<432, 432, -1, 1>>,
       <<436, 438, -1, 2>>, <<441, 441, -1, 1>>, <<445, 445, -1, 1>>, <<447, 447, 56, 1>>,
       <<453, 453, -1, 1>>, <<454, 454, -2, 1>>, <<456, 456, -1, 1>>, <<457, 457, -2, 1>>,
       <<459, 459, -1, 1>>, <<460, 460, -2, 1>>, <<462, 476, -1, 2>>, <<477, 477, -79, 1>>,
       <<479, 495, -1, 2>>, <<498, 498, -1, 1>>, <<499, 499, -2, 1>>, <<501, 501, -1, 1>>,
       <<505, 543, -1, 2>>, <<547, 563, -1, 2>>, <<572, 572, -1, 1>>, <<575, 576, 10815, 1>>,
       <<578, 578, -1, 1>>, <<583, 591, -1, 2>>, <<592, 592, 10783, 1>>,
       <<593, 593, 10780, 1>>, <<594, 594, 10782, 1>>, <<595, 595, -210, 1>>,
       <<596, 596, -206, 1>>, <<598, 599, -205, 1>>, <<601, 601, -202, 1>>,
       <<603, 603, -203, 1>>, <<604, 604, 42319, 1>>, <<608, 608, -205, 1>>,
       <<609, 609, 42315, 1>>, <<611, 611, -207, 1>>, <<612, 612, 42343, 1>>,
       <<613, 613, 42280, 1>>,
       <<614, 614, 42308, 1>>, <<616, 616, -209, 1>>, <<617, 617, -211, 1>>,
       <<618, 618, 42308, 1>>, <<619, 619, 10743, 1>>, <<620, 620, 42305, 1>>,
       <<623, 623, -211, 1>>, <<625, 625, 10749, 1>>, <<626, 626, -213, 1>>,
       <<629, 629, -214, 1>>, <<637, 637, 10727, 1>>, <<640, 640, -218, 1>>,
       <<642, 642, 42307, 1>>, <<643, 643, -218, 1>>, <<647, 647, 42282, 1>>,
       <<648, 648, -218, 1>>, <<649, 649, -69, 1>>, <<650, 651, -217, 1>>,
       <<652, 652, -71, 1>>, <<658, 658, -219, 1>>, <<669, 669, 42261, 1>>,
       <<670, 670, 42258, 1>>, <<837, 837, 84, 1>>, <<881, 883, -1, 2>>, <<887, 887, -1, 1>>,
       <<891, 893, 130, 1>>, <<940, 940, -38, 1>>, <<941, 943, -37, 1>>, <<945, 961, -32, 1>>,
       <<962, 962, -31, 1>>, <<963, 971, -32, 1>>, <<972, 972, -64, 1>>, <<973, 974, -63, 1>>,
       <<976, 976, -62, 1>>, <<977, 977, -57, 1>>, <<981, 981, -47, 1>>, <<982, 982, -54, 1>>,
       <<983, 983, -8, 1>>, <<985, 1007, -1, 2>>, <<1008, 1008, -86, 1>>,
       <<1009, 1009, -80, 1>>, <<1010, 1010, 7, 1>>, <<1011, 1011, -116, 1>>,
       <<1013, 1013, -96, 1>>, <<1016, 1016, -1, 1>>, <<1019, 1019, -1, 1>>,
       <<1072, 1103, -32, 1>>, <<1104, 1119, -80, 1>>, <<1121, 1153, -1, 2>>,
       <<1163, 1215, -1, 2>>, <<1218, 1230, -1, 2>>, <<1231, 1231, -15, 1>>,
       <<1233, 1327, -1, 2>>, <<1377, 1414, -48, 1>>, <<4304, 4346, 3008, 1>>,
       <<4349, 4351, 3008, 1>>, <<5112, 5117, -8, 1>>, <<7296, 7296, -6254, 1>>,
       <<7297, 7297, -6253, 1>>, <<7298, 7298, -6244, 1>>, <<7299, 7300, -6242, 1>>,
       <<7301, 7301, -6243, 1>>, <<7302, 7302, -6236, 1>>, <<7303, 7303, -6181, 1>>,
       <<7304, 7304, 35266, 1>>, <<7306, 7306, -1, 1>>, <<7545, 7545, 35332, 1>>, <<7549, 7549, 3814, 1>>,
       <<7566, 7566, 35384, 1>>, <<7681, 7829, -1, 2>>, <<7835, 7835, -59, 1>>,
       <<7841, 7935, -1, 2>>, <<7936, 7943, 8, 1>>, <<7952, 7957, 8, 1>>, <<7968, 7975, 8, 1>>,
       <<7984, 7991, 8, 1>>, <<8000, 8005, 8, 1>>, <<8017, 8023, 8, 2>>, <<8032, 8039, 8, 1>>,
       <<8048, 8049, 74, 1>>, <<8050, 8053, 86, 1>>, <<8054, 8055, 100, 1>>,
       <<8056, 8057, 128, 1>>, <<8058, 8059, 112, 1>>, <<8060, 8061, 126, 1>>,
       <<8112, 8113, 8, 1>>, <<8126, 8126, -7205, 1>>, <<8144, 8145, 8, 1>>,
       <<8160, 8161, 8, 1>>, <<8165, 8165, 7, 1>>, <<8526, 8526, -28, 1>>,
       <<8560, 8575, -16, 1>>, <<8580, 8580, -1, 1>>, <<9424, 9449, -26, 1>>,
       <<11312, 11359, -48, 1>>, <<11361, 11361, -1, 1>>, <<11365, 11365, -10795, 1>>,
       <<11366, 11366, -10792, 1>>, <<11368, 11372, -1, 2>>, <<11379, 11379, -1, 1>>,
       <<11382, 11382, -1, 1>>, <<11393, 11491, -1, 2>>, <<11500, 11502, -1, 2>>,
       <<11507, 11507, -1, 1>>, <<11520, 11557, -7264, 1>>, <<11559, 11559, -7264, 1>>,
       <<11565, 11565, -7264, 1>>, <<42561, 42605, -1, 2>>, <<42625, 42651, -1, 2>>,
       <<42787, 42799, -1, 2>>, <<42803, 42863, -1, 2>>, <<42874, 42876, -1, 2>>,
       <<42879, 42887, -1, 2>>, <<42892, 42892, -1, 1>>, <<42897, 42899, -1, 2>>,
       <<42900, 42900, 48, 1>>, <<42903, 42921, -1, 2>>, <<42933, 42947, -1, 2>>,
       <<42952, 42954, -1, 2>>, <<42957, 42959, -1, 2>>, <<42961, 42971, -1, 2>>,
       <<42998, 42998, -1, 1>>, <<43859, 43859, -928, 1>>, <<43888, 43967, -38864, 1>>,
       <<65345, 65370, -32, 1>>, <<66600, 66639, -40, 1>>, <<66776, 66811, -40, 1>>,
       <<66967, 66977, -39, 1>>, <<66979, 66993, -39, 1>>, <<66995, 67001, -39, 1>>,
       <<67003, 67004, -39, 1>>, <<68800, 68850, -64, 1>>, <<68976, 68997, -32, 1>>,
       <<71872, 71903, -32, 1>>,
       <<93792, 93823, -32, 1>>, <<93883, 93907, -27, 1>>, <<125218, 125251, -34, 1>> >>

\* Uppercase_Mapping for the code points that map to several (SpecialCasing)
UpperCaseSpecial ==
    << <<223, <<83, 83>>>>, <<329, <<700, 78>>>>, <<496, <<74, 780>>>>,
       <<912, <<921, 776, 769>>>>, <<944, <<933, 776, 769>>>>, <<1415, <<1333, 1362>>>>,
       <<7830, <<72, 817>>>>, <<7831, <<84, 776>>>>, <<7832, <<87, 778>>>>,
       <<7833, <<89, 778>>>>, <<7834, <<65, 702>>>>, <<8016, <<933, 787>>>>,
       <<8018, <<933, 787, 768>>>>, <<8020, <<933, 787, 769>>>>, <<8022, <<933, 787, 834>>>>,
       <<8064, <<7944, 921>>>>, <<8065, <<7945, 921>>>>, <<8066, <<7946, 921>>>>,
       <<8067, <<7947, 921>>>>, <<8068, <<7948, 921>>>>, <<8069, <<7949, 921>>>>,
       <<8070, <<7950, 921>>>>, <<8071, <<7951, 921>>>>, <<8072, <<7944, 921>>>>,
       <<8073, <<7945, 921>>>>, <<8074, <<7946, 921>>>>, <<8075, <<7947, 921>>>>,
       <<8076, <<7948, 921>>>>, <<8077, <<7949, 921>>>>, <<8078, <<7950, 921>>>>,
       <<8079, <<7951, 921>>>>, <<8080, <<7976, 921>>>>, <<8081, <<7977, 921>>>>,
       <<8082, <<7978, 921>>>>, <<8083, <<7979, 921>>>>, <<8084, <<7980, 921>>>>,
       <<8085, <<7981, 921>>>>, <<8086, <<7982, 921>>>>, <<8087, <<7983, 921>>>>,
       <<8088, <<7976, 921>>>>, <<8089, <<7977, 921>>>>, <<8090, <<7978, 921>>>>,
       <<8091, <<7979, 921>>>>, <<8092, <<7980, 921>>>>, <<8093, <<7981, 921>>>>,
       <<8094, <<7982, 921>>>>, <<8095, <<7983, 921>>>>, <<8096, <<8040, 921>>>>,
       <<8097, <<8041, 921>>>>, <<8098, <<8042, 921>>>>, <<8099, <<8043, 921>>>>,
       <<8100, <<8044, 921>>>>, <<8101, <<8045, 921>>>>, <<8102, <<8046, 921>>>>,
       <<8103, <<8047, 921>>>>, <<8104, <<8040, 921>>>>, <<8105, <<8041, 921>>>>,
       <<8106, <<8042, 921>>>>, <<8107, <<8043, 921>>>>, <<8108, <<8044, 921>>>>,
       <<8109, <<8045, 921>>>>, <<8110, <<8046, 921>>>>, <<8111, <<8047, 921>>>>,
       <<8114, <<8122, 921>>>>, <<8115, <<913, 921>>>>, <<8116, <<902, 921>>>>,
       <<8118, <<913, 834>>>>, <<8119, <<913, 834, 921>>>>, <<8124, <<913, 921>>>>,
       <<8130, <<8138, 921>>>>, <<8131, <<919, 921>>>>, <<8132, <<905, 921>>>>,
       <<8134, <<919, 834>>>>, <<8135, <<919, 834, 921>>>>, <<8140, <<919, 921>>>>,
       <<8146, <<921, 776, 768>>>>, <<8147, <<921, 776, 769>>>>, <<8150, <<921, 834>>>>,
       <<8151, <<921, 776, 834>>>>, <<8162, <<933, 776, 768>>>>, <<8163, <<933, 776, 769>>>>,
       <<8164, <<929, 787>>>>, <<8166, <<933, 834>>>>, <<8167, <<933, 776, 834>>>>,
       <<8178, <<8186, 921>>>>, <<8179, <<937, 921>>>>, <<8180, <<911, 921>>>>,
       <<8182, <<937, 834>>>>, <<8183, <<937, 834, 921>>>>, <<8188, <<937, 921>>>>,
       <<64256, <<70, 70>>>>, <<64257, <<70, 73>>>>, <<64258, <<70, 76>>>>,
       <<64259, <<70, 70, 73>>>>, <<64260, <<70, 70, 76>>>>, <<64261, <<83, 84>>>>,
       <<64262, <<83, 84>>>>, <<64275, <<1348, 1350>>>>, <<64276, <<1348, 1333>>>>,
       <<64277, <<1348, 1339>>>>, <<64278, <<1358, 1350>>>>, <<64279, <<1348, 1341>>>> >>

\* the code points with the property Case_Ignorable (Unicode Character Database,
\* version 17.0)
CaseIgnorableRanges ==
    << <<39, 39>>, <<46, 46>>, <<58, 58>>, <<94, 94>>, <<96, 96>>, <<168, 168>>, <<173, 173>>,
       <<175, 175>>, <<180, 180>>, <<183, 184>>, <<688, 879>>, <<884, 885>>, <<890, 890>>,
       <<900, 901>>, <<903, 903>>, <<1155, 1161>>, <<1369, 1369>>, <<1375, 1375>>, <<1425, 1469>>,
       <<1471, 1471>>, <<1473, 1474>>, <<1476, 1477>>, <<1479, 1479>>, <<1524, 1524>>,
       <<1536, 1541>>, <<1552, 1562>>, <<1564, 1564>>, <<1600, 1600>>, <<1611, 1631>>,
       <<1648, 1648>>, <<1750, 1757>>, <<1759, 1768>>, <<1770, 1773>>, <<1807, 1807>>,
       <<1809, 1809>>, <<1840, 1866>>, <<1958, 1968>>, <<2027, 2037>>, <<2042, 2042>>,
       <<2045, 2045>>, <<2070, 2093>>, <<2137, 2139>>, <<2184, 2184>>, <<2192, 2193>>,
       <<2199, 2207>>, <<2249, 2306>>, <<2362, 2362>>, <<2364, 2364>>, <<2369, 2376>>,
       <<2381, 2381>>, <<2385, 2391>>, <<2402, 2403>>, <<2417, 2417>>, <<2433, 2433>>,
       <<2492, 2492>>, <<2497, 2500>>, <<2509, 2509>>, <<2530, 2531>>, <<2558, 2558>>,
       <<2561, 2562>>, <<2620, 2620>>, <<2625, 2626>>, <<2631, 2632>>, <<2635, 2637>>,
       <<2641, 2641>>, <<2672, 2673>>, <<2677, 2677>>, <<2689, 2690>>, <<2748, 2748>>,
       <<2753, 2757>>, <<2759, 2760>>, <<2765, 2765>>, <<2786, 2787>>, <<2810, 2815>>,
       <<2817, 2817>>, <<2876, 2876>>, <<2879, 2879>>, <<2881, 2884>>, <<2893, 2893>>,
       <<2901, 2902>>, <<2914, 2915>>, <<2946, 2946>>, <<3008, 3008>>, <<3021, 3021>>,
       <<3072, 3072>>, <<3076, 3076>>, <<3132, 3132>>, <<3134, 3136>>, <<3142, 3144>>,
       <<3146, 3149>>, <<3157, 3158>>, <<3170, 3171>>, <<3201, 3201>>, <<3260, 3260>>,
       <<3263, 3263>>, <<3270, 3270>>, <<3276, 3277>>, <<3298, 3299>>, <<3328, 3329>>,
       <<3387, 3388>>, <<3393, 3396>>, <<3405, 3405>>, <<3426, 3427>>, <<3457, 3457>>,
       <<3530, 3530>>, <<3538, 3540>>, <<3542, 3542>>, <<3633, 3633>>, <<3636, 3642>>,
       <<3654, 3662>>, <<3761, 3761>>, <<3764, 3772>>, <<3782, 3782>>, <<3784, 3790>>,
       <<3864, 3865>>, <<3893, 3893>>, <<3895, 3895>>, <<3897, 3897>>, <<3953, 3966>>,
       <<3968, 3972>>, <<3974, 3975>>, <<3981, 3991>>, <<3993, 4028>>, <<4038, 4038>>,
       <<4141, 4144>>, <<4146, 4151>>, <<4153, 4154>>, <<4157, 4158>>, <<4184, 4185>>,
       <<4190, 4192>>, <<4209, 4212>>, <<4226, 4226>>, <<4229, 4230>>, <<4237, 4237>>,
       <<4253, 4253>>, <<4348, 4348>>, <<4957, 4959>>, <<5906, 5908>>, <<5938, 5939>>,
       <<5970, 5971>>, <<6002, 6003>>, <<6068, 6069>>, <<6071, 6077>>, <<6086, 6086>>,
       <<6089, 6099>>, <<6103, 6103>>, <<6109, 6109>>, <<6155, 6159>>, <<6211, 6211>>,
       <<6277, 6278>>, <<6313, 6313>>, <<6432, 6434>>, <<6439, 6440>>, <<6450, 6450>>,
       <<6457, 6459>>, <<6679, 6680>>, <<6683, 6683>>, <<6742, 6742>>, <<6744, 6750>>,
       <<6752, 6752>>, <<6754, 6754>>, <<6757, 6764>>, <<6771, 6780>>, <<6783, 6783>>,
       <<6823, 6823>>, <<6832, 6877>>, <<6880, 6891>>, <<6912, 6915>>, <<6964, 6964>>,
       <<6966, 6970>>, <<6972, 6972>>, <<6978, 6978>>, <<7019, 7027>>, <<7040, 7041>>,
       <<7074, 7077>>, <<7080, 7081>>, <<7083, 7085>>, <<7142, 7142>>, <<7144, 7145>>,
       <<7149, 7149>>, <<7151, 7153>>, <<7212, 7219>>, <<7222, 7223>>, <<7288, 7293>>,
       <<7376, 7378>>, <<7380, 7392>>, <<7394, 7400>>, <<7405, 7405>>, <<7412, 7412>>,
       <<7416, 7417>>, <<7468, 7530>>, <<7544, 7544>>, <<7579, 7679>>, <<8125, 8125>>,
       <<8127, 8129>>, <<8141, 8143>>, <<8157, 8159>>, <<8173, 8175>>, <<8189, 8190>>,
       <<8203, 8207>>, <<8216, 8217>>, <<8228, 8228>>, <<8231, 8231>>, <<8234, 8238>>,
       <<8288, 8292>>, <<8294, 8303>>, <<8305, 8305>>, <<8319, 8319>>, <<8336, 8348>>,
       <<8400, 8432>>, <<11388, 11389>>, <<11503, 11505>>, <<11631, 11631>>, <<11647, 11647>>,
       <<11744, 11775>>, <<11823, 11823>>, <<12293, 12293>>, <<12330, 12333>>, <<12337, 12341>>,
       <<12347, 12347>>, <<12441, 12446>>, <<12540, 12542>>, <<40981, 40981>>, <<42232, 42237>>,
       <<42508, 42508>>, <<42607, 42610>>, <<42612, 42621>>, <<42623, 42623>>, <<42652, 42655>>,
       <<42736, 42737>>, <<42752, 42785>>, <<42864, 42864>>, <<42888, 42890>>, <<42993, 42996>>,
       <<43000, 43001>>, <<43010, 43010>>, <<43014, 43014>>, <<43019, 43019>>, <<43045, 43046>>,
       <<43052, 43052>>, <<43204, 43205>>, <<43232, 43249>>, <<43263, 43263>>, <<43302, 43309>>,
       <<43335, 43345>>, <<43392, 43394>>, <<43443, 43443>>, <<43446, 43449>>, <<43452, 43453>>,
       <<43471, 43471>>, <<43493, 43494>>, <<43561, 43566>>, <<43569, 43570>>, <<43573, 43574>>,
       <<43587, 43587>>, <<43596, 43596>>, <<43632, 43632>>, <<43644, 43644>>, <<43696, 43696>>,
       <<43698, 43700>>, <<43703, 43704>>, <<43710, 43711>>, <<43713, 43713>>, <<43741, 43741>>,
       <<43756, 43757>>, <<43763, 43764>>, <<43766, 43766>>, <<43867, 43871>>, <<43881, 43883>>,
       <<44005, 44005>>, <<44008, 44008>>, <<44013, 44013>>, <<64286, 64286>>, <<64434, 64450>>,
       <<65024, 65039>>, <<65043, 65043>>, <<65056, 65071>>, <<65106, 65106>>, <<65109, 65109>>,
       <<65279, 65279>>, <<65287, 65287>>, <<65294, 65294>>, <<65306, 65306>>, <<65342, 65342>>,
       <<65344, 65344>>, <<65392, 65392>>, <<65438, 65439>>, <<65507, 65507>>, <<65529, 65531>>,
       <<66045, 66045>>, <<66272, 66272>>, <<66422, 66426>>, <<67456, 67461>>, <<67463, 67504>>,
       <<67506, 67514>>, <<68097, 68099>>, <<68101, 68102>>, <<68108, 68111>>, <<68152, 68154>>,
       <<68159, 68159>>, <<68325, 68326>>, <<68900, 68903>>, <<68942, 68942>>, <<68969, 68973>>,
       <<68975, 68975>>, <<69291, 69292>>, <<69317, 69317>>, <<69370, 69375>>, <<69446, 69456>>,
       <<69506, 69509>>, <<69633, 69633>>, <<69688, 69702>>, <<69744, 69744>>, <<69747, 69748>>,
       <<69759, 69761>>, <<69811, 69814>>, <<69817, 69818>>, <<69821, 69821>>, <<69826, 69826>>,
       <<69837, 69837>>, <<69888, 69890>>, <<69927, 69931>>, <<69933, 69940>>, <<70003, 70003>>,
       <<70016, 70017>>, <<70070, 70078>>, <<70089, 70092>>, <<70095, 70095>>, <<70191, 70193>>,
       <<70196, 70196>>, <<70198, 70199>>, <<70206, 70206>>, <<70209, 70209>>, <<70367, 70367>>,
       <<70371, 70378>>, <<70400, 70401>>, <<70459, 70460>>, <<70464, 70464>>, <<70502, 70508>>,
       <<70512, 70516>>, <<70587, 70592>>, <<70606, 70606>>, <<70608, 70608>>, <<70610, 70610>>,
       <<70625, 70626>>, <<70712, 70719>>, <<70722, 70724>>, <<70726, 70726>>, <<70750, 70750>>,
       <<70835, 70840>>, <<70842, 70842>>, <<70847, 70848>>, <<70850, 70851>>, <<71090, 71093>>,
       <<71100, 71101>>, <<71103, 71104>>, <<71132, 71133>>, <<71219, 71226>>, <<71229, 71229>>,
       <<71231, 71232>>, <<71339, 71339>>, <<71341, 71341>>, <<71344, 71349>>, <<71351, 71351>>,
       <<71453, 71453>>, <<71455, 71455>>, <<71458, 71461>>, <<71463, 71467>>, <<71727, 71735>>,
       <<71737, 71738>>, <<71995, 71996>>, <<71998, 71998>>, <<72003, 72003>>, <<72148, 72151>>,
       <<72154, 72155>>, <<72160, 72160>>, <<72193, 72202>>, <<72243, 72248>>, <<72251, 72254>>,
       <<72263, 72263>>, <<72273, 72278>>, <<72281, 72283>>, <<72330, 72342>>, <<72344, 72345>>,
       <<72544, 72544>>, <<72546, 72548>>, <<72550, 72550>>, <<72752, 72758>>, <<72760, 72765>>,
       <<72767, 72767>>, <<72850, 72871>>, <<72874, 72880>>, <<72882, 72883>>, <<72885, 72886>>,
       <<73009, 73014>>, <<73018, 73018>>, <<73020, 73021>>, <<73023, 73029>>, <<73031, 73031>>,
       <<73104, 73105>>, <<73109, 73109>>, <<73111, 73111>>, <<73177, 73177>>, <<73459, 73460>>,
       <<73472, 73473>>, <<73526, 73530>>, <<73536, 73536>>, <<73538, 73538>>, <<73562, 73562>>,
       <<78896, 78912>>, <<78919, 78933>>, <<90398, 90409>>, <<90413, 90415>>, <<92912, 92916>>,
       <<92976, 92982>>, <<92992, 92995>>, <<93504, 93506>>, <<93547, 93548>>, <<94031, 94031>>,
       <<94095, 94111>>, <<94176, 94177>>, <<94179, 94180>>, <<94194, 94195>>, <<110576, 110579>>,
       <<110581, 110587>>, <<110589, 110590>>, <<113821, 113822>>, <<113824, 113827>>,
       <<118528, 118573>>, <<118576, 118598>>, <<119143, 119145>>, <<119155, 119170>>,
       <<119173, 119179>>, <<119210, 119213>>, <<119362, 119364>>, <<121344, 121398>>,
       <<121403, 121452>>, <<121461, 121461>>, <<121476, 121476>>, <<121499, 121503>>,
       <<121505, 121519>>, <<122880, 122886>>, <<122888, 122904>>, <<122907, 122913>>,
       <<122915, 122916>>, <<122918, 122922>>, <<122928, 122989>>, <<123023, 123023>>,
       <<123184, 123197>>, <<123566, 123566>>, <<123628, 123631>>, <<124139, 124143>>,
       <<124398, 124399>>, <<124643, 124643>>, <<124646, 124646>>, <<124654, 124655>>,
       <<124661, 124661>>, <<124671, 124671>>, <<125136, 125142>>, <<125252, 125259>>,
       <<127995, 127999>>, <<917505, 917505>>, <<917536, 917631>>, <<917760, 917999>> >>

\* the code points with the property Cased that are not Case_Ignorable (version 17.0)
CasedLetterRanges ==
    << <<65, 90>>, <<97, 122>>, <<170, 170>>, <<181, 181>>, <<186, 186>>, <<192, 214>>,
       <<216, 246>>, <<248, 442>>, <<444, 447>>, <<452, 659>>, <<662, 687>>, <<880, 883>>,
       <<886, 887>>, <<891, 893>>, <<895, 895>>, <<902, 902>>, <<904, 906>>, <<908, 908>>,
       <<910, 929>>, <<931, 1013>>, <<1015, 1153>>, <<1162, 1327>>, <<1329, 1366>>, <<1376, 1416>>,
       <<4256, 4293>>, <<4295, 4295>>, <<4301, 4301>>, <<4304, 4346>>, <<4349, 4351>>,
       <<5024, 5109>>, <<5112, 5117>>, <<7296, 7306>>, <<7312, 7354>>, <<7357, 7359>>,
       <<7424, 7467>>, <<7531, 7543>>, <<7545, 7578>>, <<7680, 7957>>, <<7960, 7965>>,
       <<7968, 8005>>, <<8008, 8013>>, <<8016, 8023>>, <<8025, 8025>>, <<8027, 8027>>,
       <<8029, 8029>>, <<8031, 8061>>, <<8064, 8116>>, <<8118, 8124>>, <<8126, 8126>>,
       <<8130, 8132>>, <<8134, 8140>>, <<8144, 8147>>, <<8150, 8155>>, <<8160, 8172>>,
       <<8178, 8180>>, <<8182, 8188>>, <<8450, 8450>>, <<8455, 8455>>, <<8458, 8467>>,
       <<8469, 8469>>, <<8473, 8477>>, <<8484, 8484>>, <<8486, 8486>>, <<8488, 8488>>,
       <<8490, 8493>>, <<8495, 8500>>, <<8505, 8505>>, <<8508, 8511>>, <<8517, 8521>>,
       <<8526, 8526>>, <<8544, 8575>>, <<8579, 8580>>, <<9398, 9449>>, <<11264, 11387>>,
       <<11390, 11492>>, <<11499, 11502>>, <<11506, 11507>>, <<11520, 11557>>, <<11559, 11559>>,
       <<11565, 11565>>, <<42560, 42605>>, <<42624, 42651>>, <<42786, 42863>>, <<42865, 42887>>,
       <<42891, 42894>>, <<42896, 42972>>, <<42997, 42998>>, <<43002, 43002>>, <<43824, 43866>>,
       <<43872, 43880>>, <<43888, 43967>>, <<64256, 64262>>, <<64275, 64279>>, <<65313, 65338>>,
       <<65345, 65370>>, <<66560, 66639>>, <<66736, 66771>>, <<66776, 66811>>, <<66928, 66938>>,
       <<66940, 66954>>, <<66956, 66962>>, <<66964, 66965>>, <<66967, 66977>>, <<66979, 66993>>,
       <<66995, 67001>>, <<67003, 67004>>, <<68736, 68786>>, <<68800, 68850>>, <<68944, 68965>>,
       <<68976, 68997>>, <<71840, 71903>>, <<93760, 93823>>, <<93856, 93880>>, <<93883, 93907>>,
       <<119808, 119892>>, <<119894, 119964>>, <<119966, 119967>>, <<119970, 119970>>,
       <<119973, 119974>>, <<119977, 119980>>, <<119982, 119993>>, <<119995, 119995>>,
       <<119997, 120003>>, <<120005, 120069>>, <<120071, 120074>>, <<120077, 120084>>,
       <<120086, 120092>>, <<120094, 120121>>, <<120123, 120126>>, <<120128, 120132>>,
       <<120134, 120134>>, <<120138, 120144>>, <<120146, 120485>>, <<120488, 120512>>,
       <<120514, 120538>>, <<120540, 120570>>, <<120572, 120596>>, <<120598, 120628>>,
       <<120630, 120654>>, <<120656, 120686>>, <<120688, 120712>>, <<120714, 120744>>,
       <<120746, 120770>>, <<120772, 120779>>, <<122624, 122633>>, <<122635, 122654>>,
       <<122661, 122666>>, <<125184, 125251>>, <<127280, 127305>>, <<127312, 127337>>,
       <<127344, 127369>> >>

\* a cased letter comes before position i and none after it, case-ignorable code points
\* skipped
FinalSigmaAmong(points, i, ignorable, cased) ==
    LET before == {j \in 1..(i - 1) : ~InRanges(points[j], ignorable)}
        after == {j \in (i + 1)..Len(points) : ~InRanges(points[j], ignorable)}
        Max(S) == CHOOSE j \in S : \A k \in S : k <= j
        Min(S) == CHOOSE j \in S : \A k \in S : j <= k
    IN /\ before # {}
       /\ InRanges(points[Max(before)], cased)
       /\ ~(after # {} /\ InRanges(points[Min(after)], cased))

\* the condition Final_Sigma of SpecialCasing for the code point at position i
FinalSigma(points, i) == FinalSigmaAmong(points, i, CaseIgnorableRanges, CasedLetterRanges)

\* the lower case of the code point at position i
LowerChar(points, i) ==
    LET c == points[i]
    IN IF c < 128 THEN (IF 65 <= c /\ c <= 90 THEN <<c + 32>> ELSE <<c>>)
       ELSE IF c = 304 THEN <<105, 775>>
       ELSE IF c = 931 THEN (IF FinalSigma(points, i) THEN <<962>> ELSE <<963>>)
       ELSE <<MappedBy(c, LowerCaseRanges)>>

\* the mapping of a code point: what the table special of <<code point, code points>>
\* gives for it, else its simple case mapping
MappedTo(c, special, table) ==
    IF \E i \in 1..Len(special) : special[i][1] = c
    THEN special[CHOOSE i \in 1..Len(special) : special[i][1] = c][2]
    ELSE <<MappedBy(c, table)>>

\* the upper case of a code point
UpperChar(c) ==
    IF c < 128 THEN (IF 97 <= c /\ c <= 122 THEN <<c - 32>> ELSE <<c>>)
    ELSE MappedTo(c, UpperCaseSpecial, UpperCaseRanges)

\* the concatenation of a sequence of sequences
RECURSIVE Flatten(_)
Flatten(parts) == IF Len(parts) = 0 THEN <<>> ELSE Head(parts) \o Flatten(Tail(parts))

\* String.prototype.toUpperCase
toUpperCase(s) ==
    LET points == CodePoints(s)
    IN CodeUnits(Flatten([i \in 1..Len(points) |-> UpperChar(points[i])]))

\* String.prototype.toLowerCase
toLowerCase(s) ==
    LET points == CodePoints(s)
    IN CodeUnits(Flatten([i \in 1..Len(points) |-> LowerChar(points, i)]))

\* String.prototype.includes
includes(s, keyword) ==
    \E i \in 1..(Len(s) - Len(keyword) + 1) : SubSeq(s, i, i + Len(keyword) - 1) = keyword

\* String.prototype.trim
RECURSIVE trimStart(_)
trimStart(s) ==
    IF Len(s) > 0 /\ IsWhiteSpace(s[1]) THEN trimStart(Tail(s)) ELSE s

RECURSIVE trimEnd(_)
trimEnd(s) ==
    IF Len(s) > 0 /\ IsWhiteSpace(s[Len(s)]) THEN trimEnd(SubSeq(s, 1, Len(s) - 1)) ELSE s

trim(s) == trimEnd(trimStart(s))
(***************************************************************************)
(* JavaScript / JSON values                                                *)
(***************************************************************************)
Str(s) == [t |-> "string", v |-> s]

\* the number n (see JSON.parse for the numbers that are no integers)
Num(n) == [t |-> "number", v |-> n, e |-> 0]

Bool(b) == [t |-> "boolean", v |-> b]

Null == [t |-> "null", v |-> "null"]

Arr(elems) == [t |-> "array", v |-> elems]

Obj(pairs) == [t |-> "object", v |-> pairs]

EmptyObject == Obj(<<>>)

\* Object.keys
Keys(o) == [i \in 1..Len(o.v) |-> o.v[i][1]]

HasKey(o, k) == \E i \in 1..Len(o.v) : o.v[i][1] = k

\* ToBoolean: the truthiness of a value
Truthy(value) ==
    IF value.t \in {"undefined", "null"} THEN FALSE
    ELSE IF value.t = "boolean" THEN value.v
    ELSE IF value.t = "number" THEN value.v # 0
    ELSE IF value.t = "string" THEN Len(value.v) > 0
    ELSE TRUE

\* property read o[k] (used only where the key is present)
Get(o, k) == o.v[CHOOSE i \in 1..Len(o.v) : o.v[i][1] = k][2]

(***************************************************************************)
(* createSchema                                                            *)
(***************************************************************************)
\* the reduce callback testing the bounds for truthiness, which drops a bound of 0
createProperty_truthyBounds(value) ==
    Obj(<< <<JS("type"), Str(value.type)>>, <<JS("description"), Str(value.description)>> >>
        \o (IF "items" \in DOMAIN value /\ Truthy(value.items)
            THEN << <<JS("items"), value.items>> >> ELSE <<>>)
        \o (IF "minimum" \in DOMAIN value /\ value.minimum # 0
            THEN << <<JS("minimum"), Num(value.minimum)>> >> ELSE <<>>)
        \o (IF "maximum" \in DOMAIN value /\ value.maximum # 0
            THEN << <<JS("maximum"), Num(value.maximum)>> >> ELSE <<>>))

\* lines 14-22, the body of the reduce callback: the property object built for one
\* entry; items is copied if truthy, minimum and maximum if not undefined
createProperty(value) ==
    Obj(<< <<JS("type"), Str(value.type)>>, <<JS("description"), Str(value.description)>> >>
        \o (IF "items" \in DOMAIN value /\ Truthy(value.items)
            THEN << <<JS("items"), value.items>> >> ELSE <<>>)
        \o (IF "minimum" \in DOMAIN value THEN << <<JS("minimum"), Num(value.minimum)>> >> ELSE <<>>)
        \o (IF "maximum" \in DOMAIN value THEN << <<JS("maximum"), Num(value.maximum)>> >> ELSE <<>>))

\* a createSchema whose reduce starts at the second entry of the property map
createSchema_skipsFirstEntry(properties, required) ==
    Obj(<< <<JS("type"), Str(JS("object"))>>,
           <<JS("properties"),
             Obj([i \in 1..(Len(properties) - 1) |->
                    <<properties[i + 1][1], createProperty(properties[i + 1][2])>>])>>,
           <<JS("required"), Arr([i \in 1..Len(required) |-> Str(required[i])])>> >>)

createSchema(properties, required) ==
    Obj(<< <<JS("type"), Str(JS("object"))>>,
           <<JS("properties"),
             Obj([i \in 1..Len(properties) |->
                    <<properties[i][1], createProperty(properties[i][2])>>])>>,
           <<JS("required"), Arr([i \in 1..Len(required) |-> Str(required[i])])>> >>)

\* the object literals { type: '...' } given as items
ItemsOf(type) == Obj(<< <<JS("type"), Str(type)>> >>)

(***************************************************************************)
(* The schema catalog.  An entry's generator closure is kept as its data:  *)
(* the two property maps and required lists it hands to createSchema.      *)
(***************************************************************************)
\* catalog entry 1 (source lines 25-42)
fraudPattern ==
    [keywords |-> <<JS("fraud"), JS("fraudulent"), JS("scam"), JS("spam"), JS("phishing"), JS("fake")>>,
     priority |-> 10,
     inputProperties |->
         << <<JS("text_content"), [type |-> JS("string"), description |-> JS("The text content to analyze")]>>,
            <<JS("sender_email"), [type |-> JS("string"), description |-> JS("Email address of the sender")]>>,
            <<JS("subject"), [type |-> JS("string"), description |-> JS("Email or message subject")]>>,
            <<JS("metadata"), [type |-> JS("object"), description |-> JS("Additional contextual information")]>> >>,
     inputRequired |-> <<JS("text_content")>>,
     outputProperties |->
         << <<JS("is_fraudulent"), [type |-> JS("boolean"), description |-> JS("Whether the content is fraudulent")]>>,
            <<JS("confidence"), [type |-> JS("number"), description |-> JS("Confidence score between 0 and 1"), minimum |-> 0, maximum |-> 1]>>,
            <<JS("risk_factors"), [type |-> JS("array"), description |-> JS("List of identified risk factors"), items |-> ItemsOf(JS("string"))]>>,
            <<JS("severity"), [type |-> JS("string"), description |-> JS("Risk level: low, medium, high")]>> >>,
     outputRequired |-> <<JS("is_fraudulent"), JS("confidence")>>]

\* catalog entry 2 (source lines 44-62)
churnPattern ==
    [keywords |-> <<JS("churn"), JS("retention"), JS("attrition"), JS("cancel"), JS("unsubscribe")>>,
     priority |-> 10,
     inputProperties |->
         << <<JS("customer_id"), [type |-> JS("string"), description |-> JS("Unique customer identifier")]>>,
            <<JS("days_active"), [type |-> JS("integer"), description |-> JS("Number of days as customer"), minimum |-> 0]>>,
            <<JS("engagement_score"), [type |-> JS("number"), description |-> JS("Engagement metric"), minimum |-> 0, maximum |-> 100]>>,
            <<JS("last_activity_days"), [type |-> JS("integer"), description |-> JS("Days since last activity"), minimum |-> 0]>>,
            <<JS("support_tickets"), [type |-> JS("integer"), description |-> JS("Number of support tickets filed"), minimum |-> 0]>> >>,
     inputRequired |-> <<JS("customer_id"), JS("days_active")>>,
     outputProperties |->
         << <<JS("will_churn"), [type |-> JS("boolean"), description |-> JS("Predicted churn likelihood")]>>,
            <<JS("churn_probability"), [type |-> JS("number"), description |-> JS("Probability between 0 and 1"), minimum |-> 0, maximum |-> 1]>>,
            <<JS("churn_date_estimate"), [type |-> JS("string"), description |-> JS("Estimated date of churn (ISO 8601)")]>>,
            <<JS("retention_factors"), [type |-> JS("array"), description |-> JS("Factors affecting retention"), items |-> ItemsOf(JS("string"))]>> >>,
     outputRequired |-> <<JS("will_churn"), JS("churn_probability")>>]

\* catalog entry 3 (source lines 64-80)
sentimentPattern ==
    [keywords |-> <<JS("sentiment"), JS("emotion"), JS("feeling"), JS("opinion"), JS("review")>>,
     priority |-> 9,
     inputProperties |->
         << <<JS("text"), [type |-> JS("string"), description |-> JS("Text to analyze for sentiment")]>>,
            <<JS("language"), [type |-> JS("string"), description |-> JS("Language code (e.g., en, es)")]>>,
            <<JS("context"), [type |-> JS("string"), description |-> JS("Additional context about the text")]>> >>,
     inputRequired |-> <<JS("text")>>,
     outputProperties |->
         << <<JS("sentiment"), [type |-> JS("string"), description |-> JS("Sentiment classification: positive, negative, or neutral")]>>,
            <<JS("score"), [type |-> JS("number"), description |-> JS("Sentiment score between -1 and 1"), minimum |-> -1, maximum |-> 1]>>,
            <<JS("confidence"), [type |-> JS("number"), description |-> JS("Confidence in prediction"), minimum |-> 0, maximum |-> 1]>>,
            <<JS("emotions"), [type |-> JS("object"), description |-> JS("Breakdown of detected emotions")]>> >>,
     outputRequired |-> <<JS("sentiment"), JS("score")>>]

\* catalog entry 4 (source lines 82-98)
classifyPattern ==
    [keywords |-> <<JS("classify"), JS("classification"), JS("categorize"), JS("category"), JS("label"), JS("tag")>>,
     priority |-> 8,
     inputProperties |->
         << <<JS("text"), [type |-> JS("string"), description |-> JS("Text to classify")]>>,
            <<JS("features"), [type |-> JS("object"), description |-> JS("Additional features for classification")]>>,
            <<JS("metadata"), [type |-> JS("object"), description |-> JS("Contextual metadata")]>> >>,
     inputRequired |-> <<JS("text")>>,
     outputProperties |->
         << <<JS("category"), [type |-> JS("string"), description |-> JS("Predicted category")]>>,
            <<JS("confidence"), [type |-> JS("number"), description |-> JS("Confidence score"), minimum |-> 0, maximum |-> 1]>>,
            <<JS("all_categories"), [type |-> JS("array"), description |-> JS("All possible categories with scores"), items |-> ItemsOf(JS("object"))]>>,
            <<JS("reasoning"), [type |-> JS("string"), description |-> JS("Explanation of classification")]>> >>,
     outputRequired |-> <<JS("category"), JS("confidence")>>]

\* catalog entry 5 (source lines 100-117)
pricePattern ==
    [keywords |-> <<JS("price"), JS("pricing"), JS("cost"), JS("estimate"), JS("valuation"), JS("worth")>>,
     priority |-> 9,
     inputProperties |->
         << <<JS("features"), [type |-> JS("object"), description |-> JS("Relevant features (size, location, etc.)")]>>,
            <<JS("category"), [type |-> JS("string"), description |-> JS("Item category")]>>,
            <<JS("condition"), [type |-> JS("string"), description |-> JS("Item condition")]>>,
            <<JS("market_data"), [type |-> JS("object"), description |-> JS("Current market conditions")]>> >>,
     inputRequired |-> <<JS("features"), JS("category")>>,
     outputProperties |->
         << <<JS("predicted_price"), [type |-> JS("number"), description |-> JS("Estimated price"), minimum |-> 0]>>,
            <<JS("price_range_min"), [type |-> JS("number"), description |-> JS("Minimum price estimate"), minimum |-> 0]>>,
            <<JS("price_range_max"), [type |-> JS("number"), description |-> JS("Maximum price estimate"), minimum |-> 0]>>,
            <<JS("confidence_interval"), [type |-> JS("number"), description |-> JS("Confidence level"), minimum |-> 0, maximum |-> 1]>> >>,
     outputRequired |-> <<JS("predicted_price")>>]

\* catalog entry 6 (source lines 119-136)
recommendPattern ==
    [keywords |-> <<JS("recommend"), JS("recommendation"), JS("suggest"), JS("personalize")>>,
     priority |-> 8,
     inputProperties |->
         << <<JS("user_id"), [type |-> JS("string"), description |-> JS("User identifier")]>>,
            <<JS("user_preferences"), [type |-> JS("object"), description |-> JS("User preferences and history")]>>,
            <<JS("context"), [type |-> JS("object"), description |-> JS("Current context (time, location, etc.)")]>>,
            <<JS("num_recommendations"), [type |-> JS("integer"), description |-> JS("Number of recommendations"), minimum |-> 1]>> >>,
     inputRequired |-> <<JS("user_id")>>,
     outputProperties |->
         << <<JS("recommendations"), [type |-> JS("array"), description |-> JS("List of recommended items"), items |-> ItemsOf(JS("object"))]>>,
            <<JS("scores"), [type |-> JS("array"), description |-> JS("Relevance scores for each item"), items |-> ItemsOf(JS("number"))]>>,
            <<JS("reasoning"), [type |-> JS("object"), description |-> JS("Explanation for recommendations")]>>,
            <<JS("diversity_score"), [type |-> JS("number"), description |-> JS("Recommendation diversity"), minimum |-> 0, maximum |-> 1]>> >>,
     outputRequired |-> <<JS("recommendations")>>]

\* catalog entry 7 (source lines 138-155)
anomalyPattern ==
    [keywords |-> <<JS("anomaly"), JS("outlier"), JS("abnormal"), JS("unusual"), JS("detect")>>,
     priority |-> 8,
     inputProperties |->
         << <<JS("metrics"), [type |-> JS("object"), description |-> JS("Metrics to analyze")]>>,
            <<JS("timestamp"), [type |-> JS("string"), description |-> JS("ISO 8601 timestamp")]>>,
            <<JS("context"), [type |-> JS("object"), description |-> JS("Contextual information")]>>,
            <<JS("baseline"), [type |-> JS("object"), description |-> JS("Normal behavior baseline")]>> >>,
     inputRequired |-> <<JS("metrics"), JS("timestamp")>>,
     outputProperties |->
         << <<JS("is_anomaly"), [type |-> JS("boolean"), description |-> JS("Whether anomaly detected")]>>,
            <<JS("anomaly_score"), [type |-> JS("number"), description |-> JS("Anomaly severity"), minimum |-> 0, maximum |-> 1]>>,
            <<JS("anomaly_type"), [type |-> JS("string"), description |-> JS("Type of anomaly detected")]>>,
            <<JS("affected_metrics"), [type |-> JS("array"), description |-> JS("Metrics showing anomalies"), items |-> ItemsOf(JS("string"))]>> >>,
     outputRequired |-> <<JS("is_anomaly"), JS("anomaly_score")>>]

\* catalog entry 8 (source lines 157-173)
imagePattern ==
    [keywords |-> <<JS("image"), JS("photo"), JS("picture"), JS("visual"), JS("recognize")>>,
     priority |-> 7,
     inputProperties |->
         << <<JS("image_url"), [type |-> JS("string"), description |-> JS("URL to the image")]>>,
            <<JS("image_base64"), [type |-> JS("string"), description |-> JS("Base64 encoded image")]>>,
            <<JS("max_labels"), [type |-> JS("integer"), description |-> JS("Maximum number of labels to return"), minimum |-> 1]>> >>,
     inputRequired |-> <<JS("image_url")>>,
     outputProperties |->
         << <<JS("labels"), [type |-> JS("array"), description |-> JS("Detected labels/objects"), items |-> ItemsOf(JS("string"))]>>,
            <<JS("confidence_scores"), [type |-> JS("array"), description |-> JS("Confidence for each label"), items |-> ItemsOf(JS("number"))]>>,
            <<JS("bounding_boxes"), [type |-> JS("array"), description |-> JS("Coordinates of detected objects"), items |-> ItemsOf(JS("object"))]>>,
            <<JS("metadata"), [type |-> JS("object"), description |-> JS("Additional image information")]>> >>,
     outputRequired |-> <<JS("labels")>>]

\* catalog entry 9 (source lines 175-192)
summarizePattern ==
    [keywords |-> <<JS("summarize"), JS("summary"), JS("extract"), JS("abstract"), JS("tldr")>>,
     priority |-> 7,
     inputProperties |->
         << <<JS("text"), [type |-> JS("string"), description |-> JS("Text to summarize")]>>,
            <<JS("max_length"), [type |-> JS("integer"), description |-> JS("Maximum summary length in characters"), minimum |-> 1]>>,
            <<JS("style"), [type |-> JS("string"), description |-> JS("Summary style (brief, detailed)")]>>,
            <<JS("key_points"), [type |-> JS("boolean"), description |-> JS("Whether to extract key points")]>> >>,
     inputRequired |-> <<JS("text")>>,
     outputProperties |->
         << <<JS("summary"), [type |-> JS("string"), description |-> JS("Generated summary")]>>,
            <<JS("key_points"), [type |-> JS("array"), description |-> JS("Main points extracted"), items |-> ItemsOf(JS("string"))]>>,
            <<JS("length_ratio"), [type |-> JS("number"), description |-> JS("Compression ratio"), minimum |-> 0, maximum |-> 1]>>,
            <<JS("important_entities"), [type |-> JS("array"), description |-> JS("Key entities mentioned"), items |-> ItemsOf(JS("string"))]>> >>,
     outputRequired |-> <<JS("summary")>>]

\* catalog entry 10 (source lines 194-210)
predictPattern ==
    [keywords |-> <<JS("predict"), JS("forecast"), JS("estimate")>>,
     priority |-> 5,
     inputProperties |->
         << <<JS("features"), [type |-> JS("object"), description |-> JS("Input features for prediction")]>>,
            <<JS("timestamp"), [type |-> JS("string"), description |-> JS("Reference timestamp (ISO 8601)")]>>,
            <<JS("historical_data"), [type |-> JS("array"), description |-> JS("Historical data points"), items |-> ItemsOf(JS("object"))]>> >>,
     inputRequired |-> <<JS("features")>>,
     outputProperties |->
         << <<JS("prediction"), [type |-> JS("number"), description |-> JS("Predicted value")]>>,
            <<JS("confidence_interval"), [type |-> JS("object"), description |-> JS("Upper and lower bounds")]>>,
            <<JS("trend"), [type |-> JS("string"), description |-> JS("Predicted trend direction")]>>,
            <<JS("factors"), [type |-> JS("array"), description |-> JS("Contributing factors"), items |-> ItemsOf(JS("string"))]>> >>,
     outputRequired |-> <<JS("prediction")>>]

\* a catalog that declares the price entry before the classify entry
schemaPatterns_priceBeforeClassify ==
    << fraudPattern,
       churnPattern,
       sentimentPattern,
       pricePattern,
       classifyPattern,
       recommendPattern,
       anomalyPattern,
       imagePattern,
       summarizePattern,
       predictPattern >>

\* const schemaPatterns: the catalog, in declaration order
schemaPatterns ==
    << fraudPattern,
       churnPattern,
       sentimentPattern,
       classifyPattern,
       pricePattern,
       recommendPattern,
       anomalyPattern,
       imagePattern,
       summarizePattern,
       predictPattern >>

\* the property maps literal in getDefaultSchema
DefaultInputProperties ==
    << <<JS("data"), [type |-> JS("object"), description |-> JS("Your input data")]>>,
       <<JS("features"), [type |-> JS("object"), description |-> JS("Relevant features")]>>,
       <<JS("metadata"), [type |-> JS("object"), description |-> JS("Additional metadata")]>> >>

DefaultOutputProperties ==
    << <<JS("prediction"), [type |-> JS("string"), description |-> JS("The model prediction")]>>,
       <<JS("confidence"), [type |-> JS("number"), description |-> JS("Confidence score"), minimum |-> 0, maximum |-> 1]>>,
       <<JS("metadata"), [type |-> JS("object"), description |-> JS("Additional information")]>> >>

\* pattern.generator()
generator(pattern) ==
    [input |-> createSchema(pattern.inputProperties, pattern.inputRequired),
     output |-> createSchema(pattern.outputProperties, pattern.outputRequired)]

getDefaultSchema ==
    [input |-> createSchema(DefaultInputProperties, <<JS("data")>>),
     output |-> createSchema(DefaultOutputProperties, <<JS("prediction")>>)]

(***************************************************************************)
(* generateSchemas                                                         *)
(***************************************************************************)
\* the empty check without the trim
descriptionIsEmpty_noTrim(description) == Len(description) = 0

\* !problemDescription || problemDescription.trim().length === 0
descriptionIsEmpty(description) == Len(description) = 0 \/ Len(trim(description)) = 0

\* pattern.keywords.filter(keyword => lowerDescription.includes(keyword)).length
matchCount(pattern, lower) ==
    Cardinality({k \in 1..Len(pattern.keywords) : includes(lower, pattern.keywords[k])})

\* the score without the number of keywords found
effectivePriority_ignoresCount(pattern, count) == pattern.priority

\* const effectivePriority = pattern.priority * matchCount
effectivePriority(pattern, count) == pattern.priority * count

\* the comparison with >=, which lets a later entry replace an equal one
replacesBest_orEqual(effective, highest) == effective >= highest

\* if (effectivePriority > highestPriority)
replacesBest(effective, highest) == effective > highest

\* one iteration of the for loop on pattern, the entry i of the catalog: the new
\* <<bestMatch, highestPriority>>
loopBody(pattern, lower, i, best, highest) ==
    LET count == matchCount(pattern, lower)
        effective == effectivePriority(pattern, count)
    IN  IF count > 0 /\ replacesBest(effective, highest)
        THEN <<i, effective>>
        ELSE <<best, highest>>

\* the return falling back to the first catalog entry instead of the Default Schema
returnSchemas_firstAsFallback(patterns, best) ==
    generator(patterns[IF best # 0 THEN best ELSE 1])

\* if (bestMatch) return bestMatch.generator(); return getDefaultSchema();
returnSchemas(patterns, best) ==
    IF best # 0 THEN generator(patterns[best]) ELSE getDefaultSchema

\* the whole for loop over the catalog patterns, from entry i on: the final bestMatch
RECURSIVE scanPatterns(_, _, _, _, _)
scanPatterns(patterns, lower, i, best, highest) ==
    IF i > Len(patterns) THEN best
    ELSE LET next == loopBody(patterns[i], lower, i, best, highest)
         IN  scanPatterns(patterns, lower, i + 1, next[1], next[2])

\* generateSchemas as a function of its argument
generateSchemas(description) ==
    IF descriptionIsEmpty(description) THEN getDefaultSchema
    ELSE returnSchemas(schemaPatterns, scanPatterns(schemaPatterns, toLowerCase(description), 1, 0, -1))

(***************************************************************************)
(* Inputs                                                                  *)
(***************************************************************************)
MaxDescriptionTokens == 3

\* the pieces descriptions are put together from: white space, a word that is no
\* keyword, keywords of several entries (one holding another, one shared by two
\* entries, some in upper case)
DescriptionTokens ==
    {JS(" "), JS("\t"), JS("my"), JS("spam"), JS("fraudulent"), JS("churn"), JS("cancel"),
     JS("estimate"), JS("forecast"), JS("Scam")}

\* the description of spec section 8
FraudExample == JS("I want to identify which company emails are fraudulent")

\* blank descriptions made of white space beyond the space and the tab: U+000B, U+00A0,
\* U+FEFF, U+3000, U+2028, U+1680, U+2003
BlankExamples == {<<11>>, <<32, 160>>, <<65279, 10>>, <<12288>>, <<8232, 5760, 8195>>}

\* Descriptions with characters beyond U+007F: a letter with an accent, U+0085 and
\* U+200B (no white space), "fake" written with the Kelvin sign U+212A, "price" with
\* the dotless i U+0131 and with I, "spam" with the long s U+017F and with S,
\* "classify" with the sharp s U+00DF and in upper case, "image" with the dotted
\* I U+0130.
UnicodeExamples ==
    {<<233>>, <<133>>, <<8203>>, <<32, 233, 32>>,
     JS("fa") \o <<8490>> \o JS("e"),
     JS("pr") \o <<305>> \o JS("ce"), JS("prIce"),
     <<383>> \o JS("pam"), JS("Spam"),
     JS("cla") \o <<223>> \o JS("ify"), JS("CLASSIFY"),
     <<304>> \o JS("mage")}

Descriptions ==
    {Flatten(pieces) : pieces \in UNION {[1..n -> DescriptionTokens] : n \in 0..MaxDescriptionTokens}}
        \cup {FraudExample} \cup BlankExamples \cup UnicodeExamples

(***************************************************************************)
(* One call of generateSchemas, statement by statement                     *)
(***************************************************************************)
InitGenerate ==
    /\ problemDescription \in Descriptions
    /\ pc = "entry"
    /\ lowerDescription = JS("")
    /\ idx = 0
    /\ bestMatch = 0
    /\ highestPriority = -1
    /\ result = NoResult
    /\ schemaString = JS("")
    /\ vpc = "idle"
    /\ jsonParseCalls = 0
    /\ vresult = NoResult
    /\ heap = <<>>
    /\ calls = <<>>
    /\ mutations = 0
    /\ fcall = "idle"
    /\ farg = NoResult
    /\ fpc = "idle"
    /\ formatted = JS("")
    /\ reparsed = NoResult
    /\ step = "1"
    /\ modelId = 0
    /\ modelName = JS("")
    /\ nameManuallyEdited = FALSE
    /\ inputSchemaString = JS("")
    /\ outputSchemaString = JS("")
    /\ inputSchemaError = Null
    /\ outputSchemaError = Null
    /\ dataSourceType = "csv"
    /\ csvFile = Null
    /\ s3BucketUrl = JS("")
    /\ s3Region = JS("us-east-1")
    /\ s3AccessKeyId = JS("")
    /\ s3SecretAccessKey = JS("")
    /\ user = Null
    /\ pendingAddDoc = <<>>
    /\ docs = <<>>
    /\ trainingStarted = <<>>
    /\ rendered = [step |-> "1", modelId |-> 0]
    /\ subscribedTo = 0
    /\ lastSnapshot = "none"
    /\ timer = 0
    /\ effectsFor = [step |-> "1", modelId |-> 0]
    /\ route = [page |-> "create", id |-> 0]
    /\ mounted = TRUE
    /\ edits = 0
    /\ clicks = 0

\* lines 214-221: the empty check, then the loop's initial state
GenEnter ==
    /\ pc = "entry"
    /\ IF descriptionIsEmpty(problemDescription)
       THEN /\ result' = getDefaultSchema
            /\ pc' = "done"
            /\ UNCHANGED <<lowerDescription, bestMatch, highestPriority>>
       ELSE /\ lowerDescription' = toLowerCase(problemDescription)
            /\ bestMatch' = 0
            /\ highestPriority' = -1
            /\ pc' = "loop"
            /\ UNCHANGED result
    /\ UNCHANGED <<problemDescription, idx>>
    /\ UNCHANGED valVars
    /\ UNCHANGED heapVars
    /\ UNCHANGED fmtVars
    /\ UNCHANGED wizVars

\* lines 223-235: one iteration of the for loop
GenLoop ==
    /\ pc = "loop"
    /\ idx < Len(schemaPatterns)
    /\ LET next == loopBody(schemaPatterns[idx + 1], lowerDescription, idx + 1, bestMatch, highestPriority)
       IN  /\ bestMatch' = next[1]
           /\ highestPriority' = next[2]
    /\ idx' = idx + 1
    /\ UNCHANGED <<problemDescription, pc, lowerDescription, result>>
    /\ UNCHANGED valVars
    /\ UNCHANGED heapVars
    /\ UNCHANGED fmtVars
    /\ UNCHANGED wizVars

\* lines 237-241: the return after the loop
GenReturn ==
    /\ pc = "loop"
    /\ idx = Len(schemaPatterns)
    /\ result' = returnSchemas(schemaPatterns, bestMatch)
    /\ pc' = "done"
    /\ UNCHANGED <<problemDescription, lowerDescription, idx, bestMatch, highestPriority>>
    /\ UNCHANGED valVars
    /\ UNCHANGED heapVars
    /\ UNCHANGED fmtVars
    /\ UNCHANGED wizVars

NextGenerate == GenEnter \/ GenLoop \/ GenReturn

SpecGenerate == InitGenerate /\ [][NextGenerate]_vars

(***************************************************************************)
(* JSON.parse, as V8 (Node 20) runs it.  A parser is given the source text *)
(* and the part of it from its cursor on, and returns [ok, value, rest,    *)
(* error]: the value read and the text after it, or the message of the     *)
(* SyntaxError thrown, which names the position of the cursor (rest is the *)
(* text from there on).  A number is the double that v * 10^e, its         *)
(* shortest decimal, stands for: v is no multiple of 10 unless e = 0, and  *)
(* an integer below 2^31 has e = 0; 1 * 10^309 and -1 * 10^309 stand for   *)
(* Infinity and -Infinity.  Bounds of the model: the digits of a number    *)
(* without the zeros at their end, and those of its shortest decimal, must *)
(* fit a 32-bit integer (TLC reports an overflow if not); -0 is read as 0. *)
(***************************************************************************)
IsDigit(c) == 48 <= c /\ c <= 57

DigitValue(c) == c - 48

\* the decimal digits of a natural number
RECURSIVE DigitsOf(_)
DigitsOf(n) == IF n < 10 THEN <<48 + n>> ELSE DigitsOf(n \div 10) \o <<48 + (n % 10)>>

HexDigits == JS("0123456789abcdef")

\* the value of a hexadecimal digit (-1: not one)
HexValue(c) ==
    IF IsDigit(c) THEN c - 48
    ELSE IF 97 <= c /\ c <= 102 THEN c - 87
    ELSE IF 65 <= c /\ c <= 70 THEN c - 55
    ELSE -1

\* the white space of the JSON grammar: space, tab, line feed, carriage return
IsJsonWhiteSpace(c) == c \in {32, 9, 10, 13}

RECURSIVE skipWhiteSpace(_)
skipWhiteSpace(s) ==
    IF Len(s) > 0 /\ IsJsonWhiteSpace(s[1]) THEN skipWhiteSpace(Tail(s)) ELSE s

\* s without its first n code units
Rest(s, n) == IF n < Len(s) THEN SubSeq(s, n + 1, Len(s)) ELSE <<>>

StartsWith(s, prefix) == Len(prefix) <= Len(s) /\ SubSeq(s, 1, Len(prefix)) = prefix

Parsed(value, rest) == [ok |-> TRUE, value |-> value, rest |-> rest, error |-> <<>>]

\* a SyntaxError thrown with the cursor before s
SyntaxError(message, s) == [ok |-> FALSE, value |-> Null, rest |-> s, error |-> message]

\* the texts V8 names in its message instead of the character it met
SpecialStrings == {JS("[object Object]"), JS("undefined"), JS("Infinity"), JS("NaN")}

\* the number of code units of the source shown on either side of the position
MaxContextCharacters == 10

\* ReportUnexpectedToken without a message of its own, for the end of the text or for a
\* character that starts no value, met with the cursor before s: short sources are
\* quoted whole, of longer ones the part around the position
UnexpectedToken(source, s) ==
    LET pos == Len(source) - Len(s)
        token == JS("Unexpected token '") \o SubSeq(s, 1, 1) \o JS("', ")
        message ==
            IF Len(s) = 0 THEN JS("Unexpected end of JSON input")
            ELSE IF source \in SpecialStrings
                 THEN JS("\"") \o source \o JS("\" is not valid JSON")
            ELSE IF Len(source) < 2 * MaxContextCharacters + 1
                 THEN token \o JS("\"") \o source \o JS("\" is not valid JSON")
            ELSE IF pos < MaxContextCharacters
                 THEN token \o JS("\"") \o SubSeq(source, 1, pos + MaxContextCharacters)
                            \o JS("\"... is not valid JSON")
            ELSE IF pos < Len(source) - MaxContextCharacters
                 THEN token \o JS("...\"") \o SubSeq(source, pos - MaxContextCharacters + 1,
                                                     pos + MaxContextCharacters)
                            \o JS("\"... is not valid JSON")
            ELSE token \o JS("...\"") \o SubSeq(source, pos - MaxContextCharacters + 1, Len(source))
                       \o JS("\" is not valid JSON")
    IN  SyntaxError(message, s)

\* ReportUnexpectedToken with a message, which ends with the position of the cursor
ErrorAt(source, s, message) ==
    SyntaxError(JS(message) \o JS(" at position ") \o DigitsOf(Len(source) - Len(s)), s)

\* the code units of the characters of the JSON grammar
Quote == 34
Plus == 43
Comma == 44
Minus == 45
Point == 46
Solidus == 47
DigitZero == 48
Colon == 58
CapitalE == 69
LeftBracket == 91
Backslash == 92
RightBracket == 93
LetterB == 98
LetterE == 101
LetterF == 102
LetterN == 110
LetterR == 114
LetterT == 116
LetterU == 117
LeftBrace == 123
RightBrace == 125

\* ReportUnexpectedCharacter, and ReportUnexpectedToken(peek()): the error for the
\* character s starts with, by the token it would start: a number, a string, or any
\* other token (the end of the text among them)
UnexpectedCharacter(source, s) ==
    IF CharAt(s, 1) = Minus \/ IsDigit(CharAt(s, 1))
    THEN ErrorAt(source, s, "Unexpected number in JSON")
    ELSE IF CharAt(s, 1) = Quote
    THEN ErrorAt(source, s, "Unexpected string in JSON")
    ELSE UnexpectedToken(source, s)

\* the position of the first quote, backslash or code unit below U+0020 of s (0: none)
FirstSpecial(s) ==
    LET special == {i \in 1..Len(s) : s[i] < 32 \/ s[i] \in {Quote, Backslash}}
    IN  IF special = {} THEN 0 ELSE CHOOSE i \in special : \A j \in special : i <= j

\* the number of hexadecimal digits s starts with, four at most
HexRun(s) ==
    IF HexValue(CharAt(s, 1)) < 0 THEN 0
    ELSE IF HexValue(CharAt(s, 2)) < 0 THEN 1
    ELSE IF HexValue(CharAt(s, 3)) < 0 THEN 2
    ELSE IF HexValue(CharAt(s, 4)) < 0 THEN 3
    ELSE 4

\* the code unit a \uXXXX escape stands for, given its four digits
UnicodeEscape(hex) ==
    ((HexValue(hex[1]) * 16 + HexValue(hex[2])) * 16 + HexValue(hex[3])) * 16 + HexValue(hex[4])

\* the code unit an escape with one letter stands for (-1: no such escape)
SimpleEscape(e) ==
    IF e \in {Quote, Backslash, Solidus} THEN e
    ELSE IF e = LetterB THEN 8
    ELSE IF e = LetterF THEN 12
    ELSE IF e = LetterN THEN 10
    ELSE IF e = LetterR THEN 13
    ELSE IF e = LetterT THEN 9
    ELSE -1

\* ScanJsonString: the code units of a string literal after its opening quote, up to
\* the closing one: a run of plain ones, then the quote, an escape or an error.  After a
\* backslash, the end of the text or a code unit above U+00FF is reported as an
\* unexpected character, any other code unit that names no escape as a bad escape.
RECURSIVE parseStringBody(_, _, _)
parseStringBody(source, s, soFar) ==
    LET stop == FirstSpecial(s)
        plain == SubSeq(s, 1, stop - 1)
        c == CharAt(s, stop)
        e == CharAt(s, stop + 1)
        hex == Rest(s, stop + 1)
    IN  IF stop = 0 THEN ErrorAt(source, <<>>, "Unterminated string in JSON")
        ELSE IF c = Quote THEN Parsed(Str(soFar \o plain), Rest(s, stop))
        ELSE IF c # Backslash
             THEN ErrorAt(source, Rest(s, stop - 1),
                          "Bad control character in string literal in JSON")
        ELSE IF e < 0 \/ e > 255 THEN UnexpectedCharacter(source, Rest(s, stop))
        ELSE IF e = LetterU
             THEN IF HexRun(hex) < 4
                  THEN ErrorAt(source, Rest(hex, HexRun(hex)), "Bad Unicode escape in JSON")
                  ELSE parseStringBody(source, Rest(hex, 4),
                                       soFar \o plain \o <<UnicodeEscape(SubSeq(hex, 1, 4))>>)
        ELSE IF SimpleEscape(e) >= 0
             THEN parseStringBody(source, Rest(s, stop + 1), soFar \o plain \o <<SimpleEscape(e)>>)
        ELSE ErrorAt(source, Rest(s, stop), "Bad escaped character in JSON")

\* the number of digits s starts with
RECURSIVE DigitRun(_)
DigitRun(s) == IF IsDigit(CharAt(s, 1)) THEN 1 + DigitRun(Tail(s)) ELSE 0

\* the natural number written by digits (0 for none), after soFar
RECURSIVE parseDigits(_, _)
parseDigits(digits, soFar) ==
    IF Len(digits) = 0 THEN soFar
    ELSE parseDigits(Tail(digits), soFar * 10 + DigitValue(digits[1]))

\* digits without the zeros at its end
RECURSIVE stripZeros(_)
stripZeros(digits) ==
    IF Len(digits) > 0 /\ digits[Len(digits)] = 48
    THEN stripZeros(SubSeq(digits, 1, Len(digits) - 1))
    ELSE digits

RECURSIVE PowerOfTen(_)
PowerOfTen(n) == IF n <= 0 THEN 1 ELSE 10 * PowerOfTen(n - 1)

\* 2^1074 in base 10000, the least significant place first: the number of times that the
\* least positive double, 2^-1074, goes into 1
TwoTo1074 ==
    << 4784, 9349, 7410, 7707, 6330, 62, 8646, 2750, 1863, 2532, 3050, 6152, 3414, 5233, 7695,
       2358, 5651, 8100, 6340, 5955, 6491, 3355, 1810, 6986, 4692, 8342, 74, 8562, 4506, 4727,
       7678, 3976, 3412, 3216, 4209, 9077, 4466, 6136, 5663, 4276, 1742, 9215, 8509, 4073,
       3999, 7013, 7686, 7934, 7385, 873, 3898, 1911, 1681, 8643, 7077, 9518, 1244, 1437, 8370,
       9603, 6891, 9534, 5679, 339, 2743, 3580, 6901, 1835, 1421, 9764, 5664, 495, 7307, 1891,
       3467, 2495, 1835, 3106, 3307, 225, 2024 >>

\* 5^1074 in base 10000, the least significant place first: 2^-1074 is 5^1074 * 10^-1074
FiveTo1074 ==
    << 5625, 4726, 5334, 8265, 1971, 5064, 8682, 8753, 2290, 4565, 6754, 2427, 279, 3709, 7026,
       4205, 4116, 8099, 3664, 9899, 7335, 7389, 5583, 2509, 8167, 6273, 378, 1451, 9110, 5048,
       9131, 5119, 6605, 5125, 1758, 6777, 7972, 4701, 5336, 9699, 3446, 2037, 4778, 5608,
       8746, 7247, 7592, 7763, 4730, 8252, 9049, 9247, 1832, 2773, 8342, 5307, 8097, 6169,
       1150, 1060, 8060, 5836, 8934, 2382, 3609, 4319, 832, 3572, 7533, 6844, 3222, 7033, 7491,
       710, 2681, 3790, 2019, 9347, 5264, 4803, 5013, 6115, 5238, 5935, 7801, 4726, 6901, 1478,
       4757, 2452, 5633, 416, 908, 9894, 1931, 9954, 7099, 129, 2748, 4011, 6544, 545, 3293,
       2455, 9149, 2715, 1945, 2493, 3106, 9560, 8703, 7681, 6686, 5855, 266, 1171, 6559, 2385,
       4126, 9807, 3853, 1715, 4003, 6151, 3169, 9727, 4733, 7312, 8438, 5649, 9153, 8740, 63,
       3050, 3072, 9987, 6056, 1863, 6887, 2103, 4898, 1678, 5817, 2784, 4045, 311, 1319, 3007,
       8126, 8187, 107, 4796, 9877, 7963, 5939, 1035, 6567, 926, 1773, 4457, 4695, 9656, 3797,
       5992, 6163, 8363, 5299, 5186, 2087, 7270, 7550, 5006, 5682, 2558, 7644, 4324, 261, 598,
       2365, 2137, 8682, 8792, 7656, 5441, 1246, 4584, 656, 494 >>

\* a * b for a in base 10000 and a natural b below 2^31, in base 10000: the places of
\* the product are computed in runs of sixteen, each given the carry of the one before
BigTimes(a, b) ==
    LET places == <<b % 10000, (b \div 10000) % 10000, b \div 100000000>>
        At(i) == IF 1 <= i /\ i <= Len(a) THEN a[i] ELSE 0
        Column(k) == At(k) * places[1] + At(k - 1) * places[2] + At(k - 2) * places[3]
        RECURSIVE Run(_, _, _)
        Run(k, last, carry) ==
            IF k > last THEN [places |-> <<>>, carry |-> carry]
            ELSE LET total == Column(k) + carry
                     rest == Run(k + 1, last, total \div 10000)
                 IN  [places |-> <<total % 10000>> \o rest.places, carry |-> rest.carry]
        RECURSIVE Runs(_, _)
        Runs(k, carry) ==
            IF k > Len(a) + 3 THEN <<>>
            ELSE LET run == Run(k, IF k + 15 < Len(a) + 3 THEN k + 15 ELSE Len(a) + 3, carry)
                 IN  run.places \o Runs(k + 16, run.carry)
    IN  Runs(1, 0)

\* the decimal digit of a at the place p (0 is the units)
DigitAt(a, p) ==
    IF p < 0 \/ p >= 4 * Len(a) THEN 0 ELSE (a[(p \div 4) + 1] \div PowerOfTen(p % 4)) % 10

\* a / 10^p rounded to the nearest natural (a is never half-way between two)
RoundedFrom(a, p) ==
    LET RECURSIVE Above(_)
        Above(q) == IF q >= 4 * Len(a) THEN 0 ELSE DigitAt(a, q) + 10 * Above(q + 1)
    IN  Above(p) + (IF DigitAt(a, p - 1) >= 5 THEN 1 ELSE 0)

\* the multiple of 2^-1074 nearest to magnitude * 10^exponent, for an exponent below -14
toSubnormal(magnitude, exponent) == RoundedFrom(BigTimes(TwoTo1074, magnitude), 0 - exponent)

\* the shortest decimal that stands for the double d * 2^-1074: the one with the
\* fewest digits among those nearer to it than to any other double
shortestDecimal(d) ==
    LET exact == BigTimes(FiveTo1074, d)
        RECURSIVE From(_)
        From(p) ==
            IF RoundedFrom(exact, p) # 0 /\ toSubnormal(RoundedFrom(exact, p), p - 1074) = d
            THEN [t |-> "number", v |-> RoundedFrom(exact, p), e |-> p - 1074]
            ELSE From(p - 1)
    IN  From(4 * Len(exact))

\* the digits of the greatest finite double, 1.7976931348623157 * 10^308, as far as a
\* 32-bit integer holds them
MaxDoubleDigits == 1797693134

\* StringToNumber: the double nearest to mantissa * 10^exponent.  With k digits and the
\* point before the n-th, it is Infinity above the greatest double, the decimal itself down
\* to 10^-323, and a multiple of 2^-1074 below.
RECURSIVE Decimal(_, _)
Decimal(mantissa, exponent) ==
    LET magnitude == IF mantissa < 0 THEN 0 - mantissa ELSE mantissa
        sign == IF mantissa < 0 THEN -1 ELSE 1
        k == Len(DigitsOf(magnitude))
        n == k + exponent
    IN  IF mantissa = 0 THEN [t |-> "number", v |-> 0, e |-> 0]
        ELSE IF mantissa % 10 = 0 THEN Decimal(mantissa \div 10, exponent + 1)
        ELSE IF n > 309 \/ (n = 309 /\ magnitude > MaxDoubleDigits \div PowerOfTen(10 - k))
        THEN [t |-> "number", v |-> sign, e |-> 309]
        ELSE IF 0 <= exponent /\ exponent <= 9 /\ magnitude <= 2147483647 \div PowerOfTen(exponent)
        THEN [t |-> "number", v |-> mantissa * PowerOfTen(exponent), e |-> 0]
        ELSE IF exponent >= -323 THEN [t |-> "number", v |-> mantissa, e |-> exponent]
        ELSE IF n < -323 \/ toSubnormal(magnitude, exponent) = 0
        THEN [t |-> "number", v |-> 0, e |-> 0]
        ELSE LET shortest == shortestDecimal(toSubnormal(magnitude, exponent))
             IN  [shortest EXCEPT !.v = sign * @]

\* the parts of a number read: its sign, the digits before and after the point, and the
\* exponent
numberRead(negative, integer, fraction, exponent, rest) ==
    LET digits == stripZeros(integer \o fraction)
        magnitude == parseDigits(digits, 0)
    IN  Parsed(Decimal(IF negative THEN 0 - magnitude ELSE magnitude,
                       exponent + Len(integer) - Len(digits)),
               rest)

\* the exponent part, with the cursor before atExponent
parseExponent(source, negative, integer, fraction, atExponent) ==
    LET signed == CharAt(atExponent, 2) \in {Minus, Plus}
        atDigits == Rest(atExponent, IF signed THEN 2 ELSE 1)
        run == DigitRun(atDigits)
        exponent == parseDigits(SubSeq(atDigits, 1, run), 0)
    IN  IF CharAt(atExponent, 1) \notin {LetterE, CapitalE}
        THEN numberRead(negative, integer, fraction, 0, atExponent)
        ELSE IF run = 0
        THEN ErrorAt(source, atDigits, "Exponent part is missing a number in JSON")
        ELSE numberRead(negative, integer, fraction,
                        IF CharAt(atExponent, 2) = Minus THEN 0 - exponent ELSE exponent,
                        Rest(atDigits, run))

\* the fraction part, with the cursor before atPoint
parseFraction(source, negative, integer, atPoint) ==
    LET run == DigitRun(Rest(atPoint, 1))
    IN  IF CharAt(atPoint, 1) # Point
        THEN parseExponent(source, negative, integer, <<>>, atPoint)
        ELSE IF run = 0
        THEN ErrorAt(source, Rest(atPoint, 1), "Unterminated fractional number in JSON")
        ELSE parseExponent(source, negative, integer, SubSeq(atPoint, 2, run + 1),
                           Rest(atPoint, run + 1))

\* ParseJsonNumber: an optional minus, then 0 or a digit 1-9 followed by digits, then an
\* optional fraction and an optional exponent
parseNumber(source, s) ==
    LET negative == CharAt(s, 1) = Minus
        body == IF negative THEN Rest(s, 1) ELSE s
        run == DigitRun(body)
    IN  IF CharAt(body, 1) = DigitZero
        THEN IF IsDigit(CharAt(body, 2))
             THEN ErrorAt(source, Rest(body, 1), "Unexpected number in JSON")
             ELSE parseFraction(source, negative, JS("0"), Rest(body, 1))
        ELSE IF run = 0 THEN ErrorAt(source, body, "No number after minus sign in JSON")
        ELSE parseFraction(source, negative, SubSeq(body, 1, run), Rest(body, run))

\* the length of the longest common prefix of s and word
RECURSIVE CommonPrefix(_, _)
CommonPrefix(s, word) ==
    IF Len(s) > 0 /\ Len(word) > 0 /\ s[1] = word[1]
    THEN 1 + CommonPrefix(Tail(s), Tail(word))
    ELSE 0

\* ScanLiteral: the word, or an error at the first character that is not the word's
scanLiteral(source, s, word, value) ==
    IF StartsWith(s, JS(word)) THEN Parsed(value, Rest(s, Len(word)))
    ELSE UnexpectedCharacter(source, Rest(s, CommonPrefix(s, JS(word))))

\* an array index: the canonical numeric string of an integer from 0 to 2^32 - 2, which
\* is 4294967294 (compared in two halves of five digits)
IsArrayIndex(key) ==
    /\ Len(key) > 0
    /\ \A i \in 1..Len(key) : IsDigit(key[i])
    /\ key = JS("0") \/ key[1] # 48
    /\ Len(key) <= 10
    /\ Len(key) = 10 =>
          \/ parseDigits(SubSeq(key, 1, 5), 0) < 42949
          \/ /\ parseDigits(SubSeq(key, 1, 5), 0) = 42949
             /\ parseDigits(SubSeq(key, 6, 10), 0) <= 67294

\* a < b for two array indices: the shorter one, or the one with the smaller digit at
\* the first place they differ
IndexLess(a, b) ==
    \/ Len(a) < Len(b)
    \/ /\ Len(a) = Len(b)
       /\ \E i \in 1..Len(a) :
              /\ SubSeq(a, 1, i - 1) = SubSeq(b, 1, i - 1)
              /\ a[i] < b[i]

\* obj[key] = value on the pairs of an object: a key the object has keeps its place; a
\* new array index goes among the array indices, which come first in ascending order;
\* any other new key goes to the end
SetKey(pairs, key, value) ==
    IF \E i \in 1..Len(pairs) : pairs[i][1] = key
    THEN [i \in 1..Len(pairs) |-> IF pairs[i][1] = key THEN <<key, value>> ELSE pairs[i]]
    ELSE IF IsArrayIndex(key)
    THEN LET before == Cardinality({i \in 1..Len(pairs) :
                                       IsArrayIndex(pairs[i][1]) /\ IndexLess(pairs[i][1], key)})
         IN  SubSeq(pairs, 1, before) \o << <<key, value>> >>
                 \o SubSeq(pairs, before + 1, Len(pairs))
    ELSE Append(pairs, <<key, value>>)

RECURSIVE parseValue(_, _)
RECURSIVE parseElements(_, _, _)
RECURSIVE parseMembers(_, _, _)

\* the elements of an array from the next element on, up to the closing bracket
parseElements(source, s, soFar) ==
    LET element == parseValue(source, s)
        after == skipWhiteSpace(element.rest)
    IN  IF ~element.ok THEN element
        ELSE IF CharAt(after, 1) = Comma
             THEN parseElements(source, Rest(after, 1), Append(soFar, element.value))
        ELSE IF CharAt(after, 1) = RightBracket
             THEN Parsed(Arr(Append(soFar, element.value)), Rest(after, 1))
        ELSE ErrorAt(source, after, "Expected ',' or ']' after array element in JSON")

\* the members of an object from the next key on, up to the closing brace; soFar is
\* empty for the first member.  The first member's key and colon are expected with a
\* message of their own, a later member's key too, a later member's colon is not.
parseMembers(source, s, soFar) ==
    LET atKey == skipWhiteSpace(s)
        key == parseStringBody(source, Rest(atKey, 1), <<>>)
        atColon == skipWhiteSpace(key.rest)
        member == parseValue(source, Rest(atColon, 1))
        after == skipWhiteSpace(member.rest)
    IN  IF CharAt(atKey, 1) # Quote
        THEN ErrorAt(source, atKey,
                     IF soFar = <<>> THEN "Expected property name or '}' in JSON"
                     ELSE "Expected double-quoted property name in JSON")
        ELSE IF ~key.ok THEN key
        ELSE IF CharAt(atColon, 1) # Colon
             THEN IF soFar = <<>>
                  THEN ErrorAt(source, atColon, "Expected ':' after property name in JSON")
                  ELSE UnexpectedCharacter(source, atColon)
        ELSE IF ~member.ok THEN member
        ELSE IF CharAt(after, 1) = Comma
             THEN parseMembers(source, Rest(after, 1), SetKey(soFar, key.value.v, member.value))
        ELSE IF CharAt(after, 1) = RightBrace
             THEN Parsed(Obj(SetKey(soFar, key.value.v, member.value)), Rest(after, 1))
        ELSE ErrorAt(source, after, "Expected ',' or '}' after property value in JSON")

\* ParseJsonValue: one JSON value, white space before it skipped
parseValue(source, text) ==
    LET s == skipWhiteSpace(text)
        c == CharAt(s, 1)
        inside == skipWhiteSpace(Rest(s, 1))
    IN  IF c = LeftBrace
        THEN IF CharAt(inside, 1) = RightBrace
             THEN Parsed(EmptyObject, Rest(inside, 1))
             ELSE parseMembers(source, Rest(s, 1), <<>>)
        ELSE IF c = LeftBracket
        THEN IF CharAt(inside, 1) = RightBracket
             THEN Parsed(Arr(<<>>), Rest(inside, 1))
             ELSE parseElements(source, Rest(s, 1), <<>>)
        ELSE IF c = Quote THEN parseStringBody(source, Rest(s, 1), <<>>)
        ELSE IF c = Minus \/ IsDigit(c) THEN parseNumber(source, s)
        ELSE IF c = LetterT THEN scanLiteral(source, s, "true", Bool(TRUE))
        ELSE IF c = LetterF THEN scanLiteral(source, s, "false", Bool(FALSE))
        ELSE IF c = LetterN THEN scanLiteral(source, s, "null", Null)
        ELSE UnexpectedToken(source, s)

\* the value read, if nothing but white space follows it
endOfText(source, value) ==
    IF ~value.ok THEN value
    ELSE IF Len(skipWhiteSpace(value.rest)) > 0
    THEN ErrorAt(source, skipWhiteSpace(value.rest),
                 "Unexpected non-whitespace character after JSON")
    ELSE value

\* JSON.parse: one value and nothing but white space after it
JSONparse(text) == endOfText(text, parseValue(text, text))
(***************************************************************************)
(* validateSchema                                                          *)
(***************************************************************************)
\* the empty check without the trim
schemaStringIsEmpty_noTrim(s) == Len(s) = 0

\* !schemaString || schemaString.trim().length === 0
schemaStringIsEmpty(s) == Len(s) = 0 \/ Len(trim(s)) = 0

\* the typeof operator on a parsed JSON value
typeof(value) == IF value.t \in {"object", "array", "null"} THEN "object" ELSE value.t

\* Array.isArray
isArray(value) == value.t = "array"

\* the shape check without Array.isArray
notAnObject_missingArrayCheck(parsed) == typeof(parsed) # "object" \/ parsed = Null

\* typeof parsed !== 'object' || parsed === null || Array.isArray(parsed)
notAnObject(parsed) == typeof(parsed) # "object" \/ parsed = Null \/ isArray(parsed)

NotAnObjectMessage == JS("Schema must be a JSON object, not an array or primitive value")

\* the returns of lines 261 and 274
validResult(parsed) == [valid |-> TRUE, parsed |-> parsed]

\* an invalid result that also carries a parsed field
invalidResult_keepsParsed(message) ==
    [valid |-> FALSE, error |-> message, parsed |-> EmptyObject]

\* the returns of lines 268-271 and 276-279
invalidResult(message) == [valid |-> FALSE, error |-> message]

\* lines 266-272: the shape check on the parsed value, and the catch of lines 273-279
checkParsed(outcome) ==
    IF outcome.ok
    THEN IF notAnObject(outcome.value)
         THEN invalidResult(NotAnObjectMessage)
         ELSE validResult(outcome.value)
    ELSE invalidResult(outcome.error)

\* lines 264-280: the try block
parseAndCheck(s) == checkParsed(JSONparse(s))

\* validateSchema as a function of its argument
validateSchema(s) ==
    IF schemaStringIsEmpty(s) THEN validResult(EmptyObject) ELSE parseAndCheck(s)

MaxSchemaTokens == 4

\* the pieces schema texts are put together from
SchemaTokens ==
    {JS("{"), JS("}"), JS("["), JS("]"), JS("\"a\""), JS(":"), JS("1"), JS(","), JS(" "),
     JS("null")}

\* the texts of spec section 8
SchemaExamples == {JS("{\"a\":1}"), JS("[1,2,3]")}

\* texts with white space that is not JSON's, control characters in a string, escapes (a
\* backslash at the end of the text and before U+20AC among them), numbers with a
\* fraction, an exponent or no digit, beyond the range of a double and below the least
\* normal one, a key that is an array index, and a later member without its colon
SchemaEdgeCases ==
    {<<11>>, <<160>> \o JS("{}"), <<12288>>,
     JS("{\"a\":\"") \o <<11>> \o JS("\"}"), JS("{\"a\":\"") \o <<0>> \o JS("\"}"),
     JS("{\"a\":\"\\u0041\\b\"}"), JS("{\"a\":\"\\u20ac\\u0000\"}"), JS("{\"a\":\"\\u20a"),
     JS("\"\\"), JS("{\"a\":\"\\") \o <<8364>>, JS("{\"a\":\"\\x\"}"),
     JS("{\"a\":1.5}"), JS("{\"a\":1e3}"), JS("{\"a\":-}"), JS("{\"a\":1e-400}"),
     JS("{\"a\":1e400}"), JS("{\"a\":1.1e-323}"), JS("{\"a\":3e-324}"), JS("{\"a\":3e10}"),
     JS("{\"b\":1,\"1\":2}"), JS("[{\"a\":1,\"b\"}]"), JS("{\"a\":1,\"b\" 2}")}

SchemaStrings ==
    {Flatten(pieces) : pieces \in UNION {[1..n -> SchemaTokens] : n \in 0..MaxSchemaTokens}}
        \cup SchemaExamples \cup SchemaEdgeCases


(***************************************************************************)
(* One call of validateSchema                                              *)
(***************************************************************************)
InitValidate ==
    /\ schemaString \in SchemaStrings
    /\ vpc = "entry"
    /\ jsonParseCalls = 0
    /\ vresult = NoResult
    /\ problemDescription = JS("")
    /\ pc = "idle"
    /\ lowerDescription = JS("")
    /\ idx = 0
    /\ bestMatch = 0
    /\ highestPriority = -1
    /\ result = NoResult
    /\ heap = <<>>
    /\ calls = <<>>
    /\ mutations = 0
    /\ fcall = "idle"
    /\ farg = NoResult
    /\ fpc = "idle"
    /\ formatted = JS("")
    /\ reparsed = NoResult
    /\ step = "1"
    /\ modelId = 0
    /\ modelName = JS("")
    /\ nameManuallyEdited = FALSE
    /\ inputSchemaString = JS("")
    /\ outputSchemaString = JS("")
    /\ inputSchemaError = Null
    /\ outputSchemaError = Null
    /\ dataSourceType = "csv"
    /\ csvFile = Null
    /\ s3BucketUrl = JS("")
    /\ s3Region = JS("us-east-1")
    /\ s3AccessKeyId = JS("")
    /\ s3SecretAccessKey = JS("")
    /\ user = Null
    /\ pendingAddDoc = <<>>
    /\ docs = <<>>
    /\ trainingStarted = <<>>
    /\ rendered = [step |-> "1", modelId |-> 0]
    /\ subscribedTo = 0
    /\ lastSnapshot = "none"
    /\ timer = 0
    /\ effectsFor = [step |-> "1", modelId |-> 0]
    /\ route = [page |-> "create", id |-> 0]
    /\ mounted = TRUE
    /\ edits = 0
    /\ clicks = 0

\* lines 260-262: the empty check
ValEnter ==
    /\ vpc = "entry"
    /\ IF schemaStringIsEmpty(schemaString)
       THEN /\ vresult' = validResult(EmptyObject)
            /\ vpc' = "done"
       ELSE /\ vpc' = "parse"
            /\ UNCHANGED vresult
    /\ UNCHANGED <<schemaString, jsonParseCalls>>
    /\ UNCHANGED genVars
    /\ UNCHANGED heapVars
    /\ UNCHANGED fmtVars
    /\ UNCHANGED wizVars

\* lines 264-280: JSON.parse, the shape check, the catch
ValParse ==
    /\ vpc = "parse"
    /\ jsonParseCalls' = jsonParseCalls + 1
    /\ vresult' = parseAndCheck(schemaString)
    /\ vpc' = "done"
    /\ UNCHANGED schemaString
    /\ UNCHANGED genVars
    /\ UNCHANGED heapVars
    /\ UNCHANGED fmtVars
    /\ UNCHANGED wizVars

NextValidate == ValEnter \/ ValParse

SpecValidate == InitValidate /\ [][NextValidate]_vars

(***************************************************************************)
(* JSON.stringify(value, null, 2), on the values above: the serialization  *)
(* of ECMA-262 (SerializeJSONProperty, SerializeJSONObject,                *)
(* SerializeJSONArray, QuoteJSONString, Number::toString) with a gap of    *)
(* two spaces.  Not modelled: toJSON methods; the values hold none.        *)
(***************************************************************************)
\* four hexadecimal digits of a code unit
FourHexDigits(c) ==
    <<HexDigits[(c \div 4096) + 1], HexDigits[((c \div 256) % 16) + 1],
      HexDigits[((c \div 16) % 16) + 1], HexDigits[(c % 16) + 1]>>

\* the escape of the code unit at position i of a string literal: the short escapes, a
\* \u escape for the other code units below U+0020 and for a surrogate that has no
\* partner, the code unit itself otherwise
EscapeChar(s, i) ==
    LET c == s[i]
        paired == \/ 55296 <= c /\ c <= 56319 /\ 56320 <= CharAt(s, i + 1)
                     /\ CharAt(s, i + 1) <= 57343
                  \/ 56320 <= c /\ c <= 57343 /\ 55296 <= CharAt(s, i - 1)
                     /\ CharAt(s, i - 1) <= 56319
    IN  IF c = Quote THEN JS("\\\"")
        ELSE IF c = Backslash THEN JS("\\\\")
        ELSE IF c = 10 THEN JS("\\n")
        ELSE IF c = 9 THEN JS("\\t")
        ELSE IF c = 13 THEN JS("\\r")
        ELSE IF c = 12 THEN JS("\\f")
        ELSE IF c = 8 THEN JS("\\b")
        ELSE IF c < 32 \/ (55296 <= c /\ c <= 57343 /\ ~paired) THEN JS("\\u") \o FourHexDigits(c)
        ELSE <<c>>

QuoteJSONString(s) ==
    JS("\"") \o Flatten([i \in 1..Len(s) |-> EscapeChar(s, i)]) \o JS("\"")

RECURSIVE Zeros(_)
Zeros(n) == IF n <= 0 THEN <<>> ELSE <<48>> \o Zeros(n - 1)

\* Number::toString on the number x.v * 10^x.e: with k digits and the point after the
\* n-th, the digits as they are, followed by zeros, with a point, after "0." and zeros,
\* or with an exponent
NumberToString(x) ==
    LET digits == DigitsOf(IF x.v < 0 THEN 0 - x.v ELSE x.v)
        k == Len(digits)
        n == k + x.e
        sign == IF x.v < 0 THEN JS("-") ELSE <<>>
        mantissa == IF k = 1 THEN digits ELSE SubSeq(digits, 1, 1) \o JS(".") \o SubSeq(digits, 2, k)
    IN  IF x.e = 0 THEN sign \o digits
        ELSE IF x.e >= 309 THEN sign \o JS("Infinity")
        ELSE IF k <= n /\ n <= 21 THEN sign \o digits \o Zeros(n - k)
        ELSE IF 0 < n /\ n <= 21
             THEN sign \o SubSeq(digits, 1, n) \o JS(".") \o SubSeq(digits, n + 1, k)
        ELSE IF -6 < n /\ n <= 0 THEN sign \o JS("0.") \o Zeros(0 - n) \o digits
        ELSE IF n > 0 THEN sign \o mantissa \o JS("e+") \o DigitsOf(n - 1)
        ELSE sign \o mantissa \o JS("e-") \o DigitsOf(1 - n)

RECURSIVE SerializeJSONProperty(_, _, _)
RECURSIVE SerializeMembers(_, _, _, _)
RECURSIVE SerializeElements(_, _, _, _)

\* the members of an object from the i-th on, each "key": value, joined by the separator
SerializeMembers(pairs, i, indent, gap) ==
    IF i > Len(pairs) THEN <<>>
    ELSE QuoteJSONString(pairs[i][1]) \o (IF Len(gap) = 0 THEN JS(":") ELSE JS(": "))
         \o SerializeJSONProperty(pairs[i][2], indent, gap)
         \o (IF i = Len(pairs) THEN <<>>
             ELSE (IF Len(gap) = 0 THEN JS(",") ELSE JS(",\n") \o indent)
                  \o SerializeMembers(pairs, i + 1, indent, gap))

\* the elements of an array from the i-th on, joined by the separator
SerializeElements(elems, i, indent, gap) ==
    IF i > Len(elems) THEN <<>>
    ELSE (IF elems[i].t = "undefined" THEN JS("null")
          ELSE SerializeJSONProperty(elems[i], indent, gap))
         \o (IF i = Len(elems) THEN <<>>
             ELSE (IF Len(gap) = 0 THEN JS(",") ELSE JS(",\n") \o indent)
                  \o SerializeElements(elems, i + 1, indent, gap))

\* an object: its members whose value is not undefined, one indentation deeper
SerializeJSONObject(value, stepback, gap) ==
    LET indent == stepback \o gap
        pairs == SelectSeq(value.v, LAMBDA p : p[2].t # "undefined")
    IN  IF pairs = <<>> THEN JS("{}")
        ELSE IF Len(gap) = 0 THEN JS("{") \o SerializeMembers(pairs, 1, indent, gap) \o JS("}")
        ELSE JS("{\n") \o indent \o SerializeMembers(pairs, 1, indent, gap) \o JS("\n")
                 \o stepback \o JS("}")

SerializeJSONArray(value, stepback, gap) ==
    LET indent == stepback \o gap
    IN  IF value.v = <<>> THEN JS("[]")
        ELSE IF Len(gap) = 0 THEN JS("[") \o SerializeElements(value.v, 1, indent, gap) \o JS("]")
        ELSE JS("[\n") \o indent \o SerializeElements(value.v, 1, indent, gap) \o JS("\n")
                 \o stepback \o JS("]")

\* a number that is not finite is serialized as null
SerializeJSONProperty(value, indent, gap) ==
    IF value.t = "null" THEN JS("null")
    ELSE IF value.t = "boolean" THEN (IF value.v THEN JS("true") ELSE JS("false"))
    ELSE IF value.t = "string" THEN QuoteJSONString(value.v)
    ELSE IF value.t = "number"
         THEN (IF value.e >= 309 THEN JS("null") ELSE NumberToString(value))
    ELSE IF value.t = "array" THEN SerializeJSONArray(value, indent, gap)
    ELSE SerializeJSONObject(value, indent, gap)

\* the gap of a numeric space argument: that many spaces, ten at most
RECURSIVE Spaces(_)
Spaces(n) == IF n <= 0 THEN <<>> ELSE <<32>> \o Spaces(n - 1)

\* JSON.stringify(value, null, space) on a value that is not undefined
JSONstringify(value, space) ==
    SerializeJSONProperty(value, <<>>, Spaces(IF space > 10 THEN 10 ELSE space))

(***************************************************************************)
(* formatSchema and schemaToString                                         *)
(***************************************************************************)
\* a formatSchema that serializes schemaObject.properties instead of schemaObject
formatSchema_propertiesOnly(schemaObject) ==
    IF HasKey(schemaObject, JS("properties"))
    THEN JSONstringify(Get(schemaObject, JS("properties")), 2)
    ELSE JSONstringify(schemaObject, 2)

formatSchema(schemaObject) == JSONstringify(schemaObject, 2)

\* a schemaToString without the test for an object with no keys
schemaToString_noEmptyGuard(schema) ==
    IF schema.t \in {"undefined", "null"} THEN <<>> ELSE formatSchema(schema)

schemaToString(schema) ==
    IF schema.t \in {"undefined", "null"} \/ Len(Keys(schema)) = 0
    THEN <<>>
    ELSE formatSchema(schema)
(***************************************************************************)
(* One call of a formatter, and the returned string read back by           *)
(* validateSchema (as handleStep2Continue and handleSubmit do in turn)     *)
(***************************************************************************)
\* a description that selects each catalog entry (its first keyword), and the empty one
SelectingDescriptions == {JS("")} \cup {schemaPatterns[e].keywords[1] : e \in 1..Len(schemaPatterns)}

\* the input and output schemas generateSchemas returns for them
ReturnableSchemas ==
    UNION {{generateSchemas(d).input, generateSchemas(d).output} : d \in SelectingDescriptions}

\* the arguments of a formatter call: those, {} and {a: 1}
FormatArguments == ReturnableSchemas \cup {EmptyObject, Obj(<< <<JS("a"), Num(1)>> >>)}

InitFormat ==
    /\ fcall \in {"formatSchema", "schemaToString"}
    /\ farg \in FormatArguments \cup (IF fcall = "schemaToString" THEN {NoResult} ELSE {})
    /\ fpc = "entry"
    /\ formatted = JS("")
    /\ reparsed = NoResult
    /\ problemDescription = JS("")
    /\ pc = "idle"
    /\ lowerDescription = JS("")
    /\ idx = 0
    /\ bestMatch = 0
    /\ highestPriority = -1
    /\ result = NoResult
    /\ schemaString = JS("")
    /\ vpc = "idle"
    /\ jsonParseCalls = 0
    /\ vresult = NoResult
    /\ heap = <<>>
    /\ calls = <<>>
    /\ mutations = 0
    /\ step = "1"
    /\ modelId = 0
    /\ modelName = JS("")
    /\ nameManuallyEdited = FALSE
    /\ inputSchemaString = JS("")
    /\ outputSchemaString = JS("")
    /\ inputSchemaError = Null
    /\ outputSchemaError = Null
    /\ dataSourceType = "csv"
    /\ csvFile = Null
    /\ s3BucketUrl = JS("")
    /\ s3Region = JS("us-east-1")
    /\ s3AccessKeyId = JS("")
    /\ s3SecretAccessKey = JS("")
    /\ user = Null
    /\ pendingAddDoc = <<>>
    /\ docs = <<>>
    /\ trainingStarted = <<>>
    /\ rendered = [step |-> "1", modelId |-> 0]
    /\ subscribedTo = 0
    /\ lastSnapshot = "none"
    /\ timer = 0
    /\ effectsFor = [step |-> "1", modelId |-> 0]
    /\ route = [page |-> "create", id |-> 0]
    /\ mounted = TRUE
    /\ edits = 0
    /\ clicks = 0

\* lines 283-285
CallFormatSchema ==
    /\ fpc = "entry"
    /\ fcall = "formatSchema"
    /\ formatted' = formatSchema(farg)
    /\ fpc' = "formatted"
    /\ UNCHANGED <<fcall, farg, reparsed>>
    /\ UNCHANGED genVars
    /\ UNCHANGED valVars
    /\ UNCHANGED heapVars
    /\ UNCHANGED wizVars

\* lines 287-292
CallSchemaToString ==
    /\ fpc = "entry"
    /\ fcall = "schemaToString"
    /\ formatted' = schemaToString(farg)
    /\ fpc' = "formatted"
    /\ UNCHANGED <<fcall, farg, reparsed>>
    /\ UNCHANGED genVars
    /\ UNCHANGED valVars
    /\ UNCHANGED heapVars
    /\ UNCHANGED wizVars

\* validateSchema on the returned string
ReadBack ==
    /\ fpc = "formatted"
    /\ reparsed' = validateSchema(formatted)
    /\ fpc' = "done"
    /\ UNCHANGED <<fcall, farg, formatted>>
    /\ UNCHANGED genVars
    /\ UNCHANGED valVars
    /\ UNCHANGED heapVars
    /\ UNCHANGED wizVars

NextFormat == CallFormatSchema \/ CallSchemaToString \/ ReadBack

SpecFormat == InitFormat /\ [][NextFormat]_vars

(***************************************************************************)
(* Object identity.  The heap holds the objects and arrays the program has *)
(* created, a cell each; a cell's slots hold primitive values or           *)
(* references to other cells.  The module's constant schemaPatterns (line  *)
(* 24) is on the heap before the first call: the array, its entries and    *)
(* their keywords arrays.  A call of generateSchemas reads the catalog     *)
(* from the heap and adds a cell for every object or array literal it      *)
(* evaluates; an assignment of an existing object (lines 15 and 20) puts a *)
(* reference to its cell.  A caller keeps the SchemaSets it was given and  *)
(* may change, in place, every object it can reach through them.           *)
(***************************************************************************)
Ref(id) == [t |-> "ref", v |-> id]

\* the closure of the generator of catalog entry i
Closure(i) == [t |-> "function", v |-> i]

\* a SchemaSet { input, output } as an object
schemaSetObject(schemas) == Obj(<< <<JS("input"), schemas.input>>, <<JS("output"), schemas.output>> >>)

IsComposite(value) == value.t \in {"object", "array"}

\* the values an object or array holds, in order
Children(value) ==
    IF value.t = "object" THEN [i \in 1..Len(value.v) |-> value.v[i][2]] ELSE value.v

\* the number of objects and arrays a value is made of
RECURSIVE Size(_)
RECURSIVE SizeUpTo(_, _)
SizeUpTo(values, n) == IF n = 0 THEN 0 ELSE SizeUpTo(values, n - 1) + Size(values[n])

Size(value) ==
    IF IsComposite(value) THEN 1 + SizeUpTo(Children(value), Len(Children(value))) ELSE 0

\* the cells of a value written as nested literals, the first of them cell base + 1:
\* the value's own cell, then the cells of its children, one child after the other
RECURSIVE Cells(_, _)
RECURSIVE CellsOfEach(_, _, _)
CellsOfEach(values, i, base) ==
    IF i > Len(values) THEN <<>>
    ELSE Cells(values[i], base) \o CellsOfEach(values, i + 1, base + Size(values[i]))

Cells(value, base) ==
    IF ~IsComposite(value) THEN <<>>
    ELSE LET children == Children(value)
             slot(i) == IF IsComposite(children[i])
                        THEN Ref(base + 1 + SizeUpTo(children, i - 1) + 1)
                        ELSE children[i]
             cell == IF value.t = "object"
                     THEN Obj([i \in 1..Len(children) |-> <<value.v[i][1], slot(i)>>])
                     ELSE Arr([i \in 1..Len(children) |-> slot(i)])
         IN  <<cell>> \o CellsOfEach(children, 1, base + 1)

\* the value a slot stands for, references followed
RECURSIVE Deref(_, _)
Deref(h, slot) ==
    IF slot.t # "ref" THEN slot
    ELSE LET cell == h[slot.v]
         IN  IF cell.t = "object"
             THEN Obj([i \in 1..Len(cell.v) |-> <<cell.v[i][1], Deref(h, cell.v[i][2])>>])
             ELSE Arr([i \in 1..Len(cell.v) |-> Deref(h, cell.v[i])])

\* the cells reachable from a slot
RECURSIVE Reach(_, _)
Reach(h, slot) ==
    IF slot.t # "ref" THEN {}
    ELSE LET cell == h[slot.v]
         IN  {slot.v} \cup
             UNION {Reach(h, IF cell.t = "object" THEN cell.v[i][2] ELSE cell.v[i]) : i \in 1..Len(cell.v)}

\* lines 24-209: the array literal of schemaPatterns, each entry an object literal
\* { keywords: [...], priority, generator }
catalogLiteral(patterns) ==
    Arr([i \in 1..Len(patterns) |->
           Obj(<< <<JS("keywords"), Arr([k \in 1..Len(patterns[i].keywords) |-> Str(patterns[i].keywords[k])])>>,
                  <<JS("priority"), Num(patterns[i].priority)>>,
                  <<JS("generator"), Closure(i)>> >>)])

\* the heap once the module is loaded; schemaPatterns is its first cell
ModuleHeap == Cells(catalogLiteral(schemaPatterns), 0)

\* schemaPatterns as the for loop of lines 222-236 reads it from the heap: of each
\* entry its keywords, its priority and its generator
patternsRead(h) ==
    LET entries == Deref(h, Ref(1)).v
    IN  [i \in 1..Len(entries) |->
           [keywords |-> [k \in 1..Len(Get(entries[i], JS("keywords")).v) |->
                            Get(entries[i], JS("keywords")).v[k].v],
            priority |-> Get(entries[i], JS("priority")).v,
            generator |-> Get(entries[i], JS("generator")).v]]

\* the object literal of one property in the first argument of createSchema
propertyLiteral(value) ==
    Obj(<< <<JS("type"), Str(value.type)>>, <<JS("description"), Str(value.description)>> >>
        \o (IF "items" \in DOMAIN value THEN << <<JS("items"), value.items>> >> ELSE <<>>)
        \o (IF "minimum" \in DOMAIN value THEN << <<JS("minimum"), Num(value.minimum)>> >> ELSE <<>>)
        \o (IF "maximum" \in DOMAIN value THEN << <<JS("maximum"), Num(value.maximum)>> >> ELSE <<>>))

\* the first argument of a createSchema call: an object literal of property literals
propertiesLiteral(properties) ==
    Obj([i \in 1..Len(properties) |-> <<properties[i][1], propertyLiteral(properties[i][2])>>])

\* lines 14-21: acc[key], the object createSchema builds for one property; its items
\* is value.items itself (line 15), the object at cell itemsCell
propertyCell(value, itemsCell) ==
    LET built == createProperty(value).v
    IN  Obj([i \in 1..Len(built) |->
               IF built[i][1] = JS("items") THEN <<JS("items"), Ref(itemsCell)>> ELSE built[i]])

\* lines 12-22: the cells one call createSchema(properties, required) adds after cell
\* base, its arguments evaluated first: the cells of the properties literal, the
\* required literal, then the returned object, acc and each acc[key].  The returned
\* object's required is the argument itself (line 20).
createSchemaCells(properties, required, base) ==
    LET literal == propertiesLiteral(properties)
        args == Size(literal)
        requiredCell == base + args + 1
        schemaCell == base + args + 2
        accCell == base + args + 3
        itemsCell(i) == base + 1 + SizeUpTo(Children(literal), i - 1) + 2
    IN  Cells(literal, base)
        \o << Arr([i \in 1..Len(required) |-> Str(required[i])]),
              Obj(<< <<JS("type"), Str(JS("object"))>>,
                     <<JS("properties"), Ref(accCell)>>,
                     <<JS("required"), Ref(requiredCell)>> >>),
              Obj([i \in 1..Len(properties) |-> <<properties[i][1], Ref(accCell + i)>>]) >>
        \o [i \in 1..Len(properties) |-> propertyCell(properties[i][2], itemsCell(i))]

\* the cell of the object a createSchema call made after cell base returns
createSchemaResult(properties, base) == base + Size(propertiesLiteral(properties)) + 2

\* the number of cells a createSchema call adds
createSchemaSize(properties) == Size(propertiesLiteral(properties)) + 3 + Len(properties)

\* lines 28-41 and 245-256: the cells the literal { input: createSchema(..),
\* output: createSchema(..) } adds after cell base: the SchemaSet, then the cells of
\* the two calls
schemaSetCells(inputProperties, inputRequired, outputProperties, outputRequired, base) ==
    LET inputBase == base + 1
        outputBase == inputBase + createSchemaSize(inputProperties)
    IN  << Obj(<< <<JS("input"), Ref(createSchemaResult(inputProperties, inputBase))>>,
                  <<JS("output"), Ref(createSchemaResult(outputProperties, outputBase))>> >>) >>
        \o createSchemaCells(inputProperties, inputRequired, inputBase)
        \o createSchemaCells(outputProperties, outputRequired, outputBase)

\* lines 238-242: the cells the return adds: those of the generator of the best entry
\* (the closure the entry read from the heap names) or those of getDefaultSchema()
returnCells(closures, read, best, base) ==
    IF best # 0
    THEN LET pattern == closures[read[best].generator]
         IN  schemaSetCells(pattern.inputProperties, pattern.inputRequired,
                            pattern.outputProperties, pattern.outputRequired, base)
    ELSE schemaSetCells(DefaultInputProperties, <<JS("data")>>,
                        DefaultOutputProperties, <<JS("prediction")>>, base)

MaxCalls == 3

MaxMutations == 1

\* the texts a caller calls generateSchemas with
CallTexts == {JS(""), JS("spam"), JS("cancel")}

\* what a call adds to the caller's record
CallRecord(text, root, h) ==
    [text |-> text, root |-> root, returned |-> Deref(h, root), objects |-> Reach(h, root),
     mutationsBefore |-> mutations]

\* a generateSchemas that keeps the SchemaSet of each text and hands it out again
CallGenerateSchemas_memoized(description) ==
    /\ Len(calls) < MaxCalls
    /\ IF \E i \in 1..Len(calls) : calls[i].text = description
       THEN LET first == CHOOSE i \in 1..Len(calls) : calls[i].text = description
            IN  /\ heap' = heap
                /\ calls' = Append(calls, CallRecord(description, calls[first].root, heap))
       ELSE LET read == patternsRead(heap)
                best == IF descriptionIsEmpty(description) THEN 0
                        ELSE scanPatterns(read, toLowerCase(description), 1, 0, -1)
                after == heap \o returnCells(schemaPatterns, read, best, Len(heap))
            IN  /\ heap' = after
                /\ calls' = Append(calls, CallRecord(description, Ref(Len(heap) + 1), after))
    /\ UNCHANGED mutations
    /\ UNCHANGED genVars
    /\ UNCHANGED valVars
    /\ UNCHANGED fmtVars
    /\ UNCHANGED wizVars

\* one whole call generateSchemas(description), lines 213-243: the empty check, the
\* loop over the catalog as the heap holds it, and the return, whose literals are new
\* cells; the caller is given the reference to the SchemaSet
CallGenerateSchemas(description) ==
    /\ Len(calls) < MaxCalls
    /\ LET read == patternsRead(heap)
           best == IF descriptionIsEmpty(description) THEN 0
                   ELSE scanPatterns(read, toLowerCase(description), 1, 0, -1)
           after == heap \o returnCells(schemaPatterns, read, best, Len(heap))
       IN  /\ heap' = after
           /\ calls' = Append(calls, CallRecord(description, Ref(Len(heap) + 1), after))
    /\ UNCHANGED mutations
    /\ UNCHANGED genVars
    /\ UNCHANGED valVars
    /\ UNCHANGED fmtVars
    /\ UNCHANGED wizVars

\* the caller changes, in place, an object or array it reached through a result:
\* it assigns a property (pushes an element) or deletes one (pops one)
MutateResult(o, kind) ==
    /\ mutations < MaxMutations
    /\ o \in UNION {Reach(heap, calls[i].root) : i \in 1..Len(calls)}
    /\ heap' = [heap EXCEPT ![o] =
          IF kind = "assign"
          THEN IF @.t = "object" THEN Obj(SetKey(@.v, JS("mutated"), Bool(TRUE)))
               ELSE Arr(Append(@.v, Str(JS("mutated"))))
          ELSE [t |-> @.t, v |-> SubSeq(@.v, 1, Len(@.v) - 1)]]
    /\ heap' # heap
    /\ mutations' = mutations + 1
    /\ UNCHANGED calls
    /\ UNCHANGED genVars
    /\ UNCHANGED valVars
    /\ UNCHANGED fmtVars
    /\ UNCHANGED wizVars

InitCalls ==
    /\ heap = ModuleHeap
    /\ calls = <<>>
    /\ mutations = 0
    /\ problemDescription = JS("")
    /\ pc = "idle"
    /\ lowerDescription = JS("")
    /\ idx = 0
    /\ bestMatch = 0
    /\ highestPriority = -1
    /\ result = NoResult
    /\ schemaString = JS("")
    /\ vpc = "idle"
    /\ jsonParseCalls = 0
    /\ vresult = NoResult
    /\ fcall = "idle"
    /\ farg = NoResult
    /\ fpc = "idle"
    /\ formatted = JS("")
    /\ reparsed = NoResult
    /\ step = "1"
    /\ modelId = 0
    /\ modelName = JS("")
    /\ nameManuallyEdited = FALSE
    /\ inputSchemaString = JS("")
    /\ outputSchemaString = JS("")
    /\ inputSchemaError = Null
    /\ outputSchemaError = Null
    /\ dataSourceType = "csv"
    /\ csvFile = Null
    /\ s3BucketUrl = JS("")
    /\ s3Region = JS("us-east-1")
    /\ s3AccessKeyId = JS("")
    /\ s3SecretAccessKey = JS("")
    /\ user = Null
    /\ pendingAddDoc = <<>>
    /\ docs = <<>>
    /\ trainingStarted = <<>>
    /\ rendered = [step |-> "1", modelId |-> 0]
    /\ subscribedTo = 0
    /\ lastSnapshot = "none"
    /\ timer = 0
    /\ effectsFor = [step |-> "1", modelId |-> 0]
    /\ route = [page |-> "create", id |-> 0]
    /\ mounted = TRUE
    /\ edits = 0
    /\ clicks = 0

NextCalls ==
    \/ \E description \in CallTexts : CallGenerateSchemas(description)
    \/ \E o \in 1..Len(heap), kind \in {"assign", "delete"} : MutateResult(o, kind)

SpecCalls == InitCalls /\ [][NextCalls]_vars

(***************************************************************************)
(***************************************************************************)
(* The create-model wizard (CreateModelContent, lines 317-873): the state  *)
(* of the component, one action per event handler, the completion of each  *)
(* addDoc call, the training service's update of a record, React's render  *)
(* and its effects, the snapshot listener, the redirect timer, the two     *)
(* buttons of the success screen and the router's replacing of the page.   *)
(* The step is written as a string ("1", "2", "3" for 1, 2, 3).            *)
(*                                                                         *)
(* step and modelId are the component's state as the calls of setStep and  *)
(* setModelId have left it; rendered is what the last render has shown.    *)
(* A handler of a user event that sets state is followed at once by the    *)
(* render and the effects it causes (React flushes them before the next    *)
(* event); a handler that sets none causes no render.  A state change made *)
(* outside a user event (after the await of addDoc, in the snapshot        *)
(* listener) is rendered in a later step, Render, and the effects of that  *)
(* render run in a step after it, RunEffects; the listener of the earlier  *)
(* subscription stays attached until then.  router.push only gives the     *)
(* router a route: the page stays mounted, its timer and its buttons       *)
(* live, until the router replaces it (Unmount).                           *)
(* copiedSchema and the clipboard (lines 389-394) are not modelled.        *)
(***************************************************************************)
\* the position of the first white-space character of s (0: none)
FirstWhiteSpace(s) ==
    LET ws == {i \in 1..Len(s) : IsWhiteSpace(s[i])}
    IN  IF ws = {} THEN 0 ELSE CHOOSE i \in ws : \A j \in ws : i <= j

\* String.prototype.split(/\s+/)
RECURSIVE splitWhiteSpace(_)
splitWhiteSpace(s) ==
    LET i == FirstWhiteSpace(s)
    IN  IF i = 0 THEN <<s>>
        ELSE <<SubSeq(s, 1, i - 1)>> \o splitWhiteSpace(trimStart(Rest(s, i)))

\* Array.prototype.slice(0, n)
slice(words, n) == SubSeq(words, 1, IF Len(words) < n THEN Len(words) ELSE n)

\* Array.prototype.join
RECURSIVE join(_, _)
join(words, separator) ==
    IF words = <<>> THEN <<>>
    ELSE IF Len(words) = 1 THEN words[1]
    ELSE words[1] \o separator \o join(Tail(words), separator)

\* line 344: word.charAt(0).toUpperCase() + word.slice(1).toLowerCase()
capitalize(word) == toUpperCase(SubSeq(word, 1, IF Len(word) = 0 THEN 0 ELSE 1)) \o toLowerCase(Rest(word, 1))

\* lines 342-345: const generatedName
generatedName(description) ==
    LET words == slice(splitWhiteSpace(trim(description)), 4)
    IN  join([i \in 1..Len(words) |-> capitalize(words[i])], JS(" "))

\* the condition of the name effect without the test of nameManuallyEdited
nameEffectRuns_ignoresManualEdit(edited, description) == Len(description) > 0

\* line 341: if (!nameManuallyEdited && problemDescription)
nameEffectRuns(edited, description) == ~edited /\ Len(description) > 0

\* lines 340-348: modelName after the effect has run for a description
nameAfterEffect(edited, description, name) ==
    IF nameEffectRuns(edited, description) THEN generatedName(description) ELSE name

\* lines 361-363: const isValid
dataSourceIsValid ==
    IF dataSourceType = "csv"
    THEN csvFile # Null
    ELSE Len(s3BucketUrl) > 0 /\ Len(s3AccessKeyId) > 0 /\ Len(s3SecretAccessKey) > 0

\* an error state that is never set
errorOf_alwaysNull(validation) == Null

\* lines 378 and 385: validation.valid ? null : validation.error || null
errorOf(validation) ==
    IF validation.valid THEN Null
    ELSE IF Len(validation.error) > 0 THEN Str(validation.error)
    ELSE Null

\* lines 375 and 382: value || ""
orEmptyString(value) == IF value.t = "undefined" THEN <<>> ELSE value.v

\* lines 431-432: validation.parsed || {}
orEmptyObject(validation) == IF validation.valid THEN validation.parsed ELSE EmptyObject

\* lines 406-418: const dataSource
dataSourceDescriptor ==
    IF dataSourceType = "csv"
    THEN Obj(<< <<JS("type"), Str(JS("csv"))>> >>
             \o (IF csvFile = Null THEN <<>>
                 ELSE << <<JS("fileName"), Get(csvFile, JS("name"))>>,
                         <<JS("fileSize"), Get(csvFile, JS("size"))>> >>))
    ELSE Obj(<< <<JS("type"), Str(JS("s3"))>>,
                <<JS("bucketUrl"), Str(s3BucketUrl)>>,
                <<JS("region"), Str(s3Region)>>,
                <<JS("accessKeyId"), Str(s3AccessKeyId)>>,
                <<JS("secretAccessKey"), Str(s3SecretAccessKey)>> >>)

\* lines 423-433: the record given to addDoc; createdAt and updatedAt are what the two
\* calls of Timestamp.now() (lines 429-430) return
newModelRecord(createdAt, updatedAt) ==
    [userId |-> Get(user, JS("uid")).v,
     name |-> IF Len(modelName) > 0 THEN modelName ELSE JS("Untitled Model"),
     problemDescription |-> problemDescription,
     dataSource |-> dataSourceDescriptor,
     status |-> "training",
     createdAt |-> createdAt,
     updatedAt |-> updatedAt,
     inputSchema |-> orEmptyObject(validateSchema(inputSchemaString)),
     outputSchema |-> orEmptyObject(validateSchema(outputSchemaString))]

\* line 851: disabled of the Create Model button
createModelDisabled == inputSchemaError # Null \/ outputSchemaError # Null

\* lines 444-456: the record the effect subscribes to for a step and a modelId (0: none)
subscriptionFor(s, id) == IF id # 0 /\ s = "training" THEN id ELSE 0

\* lines 458-465: the record the effect sets the redirect timer for (0: no timer)
timerFor(s, id) == IF s = "success" /\ id # 0 THEN id ELSE 0

\* a sequence without its i-th element
RemoveAt(seq, i) == SubSeq(seq, 1, i - 1) \o SubSeq(seq, i + 1, Len(seq))

\* bounds of a run: edits of form fields, clicks on Create Model.  Three edits let a run
\* type a description, choose a file and change one schema text; the S3 form, which
\* takes four edits to fill in, can be edited but not submitted within them.
MaxEdits == 3

MaxClicks == 2

\* what the user types or picks
WizardDescriptions ==
    {JS(""), JS(" "), JS("spam"), JS(" detect SPAM in\tmy EMAIL inbox "),
     <<304>> \o JS("MAGE") \o <<12288>> \o JS("o") \o <<223>>}

ModelNames == {JS(""), JS("Mine")}

SchemaEdits == {NoResult, Str(JS("{")), Str(JS("{\"a\":1}")), Str(JS("[1,2,3]"))}

S3Values == {JS(""), JS("k")}

SomeFile == Obj(<< <<JS("name"), Str(JS("data.csv"))>>, <<JS("size"), Num(1)>> >>)

SomeUser == Obj(<< <<JS("uid"), Str(JS("u1"))>> >>)

\* lines 429-430: Timestamp.now(); time is counted in clicks on Create Model, and the
\* two calls made in one click are given the same time
TimestampNow == clicks + 1

\* the component is unmounted: the router has replaced the wizard page
redirected == ~mounted

\* the component is mounted and its state is that of step s
Showing(s) == step = s /\ ~redirected

\* the component is mounted and its last render has shown the screen of step s
OnScreen(s) == rendered.step = s /\ ~redirected

InitWizard ==
    /\ step = "1"
    /\ modelId = 0
    /\ problemDescription = JS("")
    /\ modelName = JS("")
    /\ nameManuallyEdited = FALSE
    /\ inputSchemaString = JS("")
    /\ outputSchemaString = JS("")
    /\ inputSchemaError = Null
    /\ outputSchemaError = Null
    /\ dataSourceType = "csv"
    /\ csvFile = Null
    /\ s3BucketUrl = JS("")
    /\ s3Region = JS("us-east-1")
    /\ s3AccessKeyId = JS("")
    /\ s3SecretAccessKey = JS("")
    /\ user \in {Null, SomeUser}
    /\ pendingAddDoc = <<>>
    /\ docs = <<>>
    /\ trainingStarted = <<>>
    /\ rendered = [step |-> "1", modelId |-> 0]
    /\ subscribedTo = 0
    /\ lastSnapshot = "none"
    /\ timer = 0
    /\ effectsFor = [step |-> "1", modelId |-> 0]
    /\ route = [page |-> "create", id |-> 0]
    /\ mounted = TRUE
    /\ edits = 0
    /\ clicks = 0
    /\ pc = "idle"
    /\ lowerDescription = JS("")
    /\ idx = 0
    /\ bestMatch = 0
    /\ highestPriority = -1
    /\ result = NoResult
    /\ schemaString = JS("")
    /\ vpc = "idle"
    /\ jsonParseCalls = 0
    /\ vresult = NoResult
    /\ heap = <<>>
    /\ calls = <<>>
    /\ mutations = 0
    /\ fcall = "idle"
    /\ farg = NoResult
    /\ fpc = "idle"
    /\ formatted = JS("")
    /\ reparsed = NoResult

\* the variables of the other specifications
restVars == <<pc, lowerDescription, idx, bestMatch, highestPriority, result,
              valVars, heapVars, fmtVars>>

\* groups of the wizard's variables
nameVars == <<modelName, nameManuallyEdited>>

schemaVars == <<inputSchemaString, outputSchemaString, inputSchemaError, outputSchemaError>>

sourceVars == <<dataSourceType, csvFile, s3BucketUrl, s3Region, s3AccessKeyId, s3SecretAccessKey>>

storeVars == <<pendingAddDoc, docs, trainingStarted>>

effectVars == <<subscribedTo, lastSnapshot, timer, effectsFor>>

\* the effects of lines 444-456 and 458-465 for a rendered step and modelId; they run
\* when step or modelId differ from those of their last run (lines 456 and 465): the
\* cleanup of the earlier run unsubscribes and clears the timer, the new run subscribes
\* (the new listener has been given no snapshot yet) and sets the timer
EffectsRunFor(s, id) ==
    IF effectsFor = [step |-> s, modelId |-> id]
    THEN UNCHANGED effectVars
    ELSE /\ subscribedTo' = subscriptionFor(s, id)
         /\ lastSnapshot' = "none"
         /\ timer' = timerFor(s, id)
         /\ effectsFor' = [step |-> s, modelId |-> id]

\* the render that follows a handler of a user event that has set state, with its
\* effects: it shows the state the handler has left
RenderAfterEvent(s) ==
    /\ rendered' = [step |-> s, modelId |-> modelId]
    /\ EffectsRunFor(s, modelId)

\* the effects of the last render have run
EffectsDone == effectsFor = rendered

\* line 555, then the effect of lines 340-348
SetProblemDescription(value) ==
    /\ OnScreen("1")
    /\ edits < MaxEdits
    /\ value # problemDescription
    /\ problemDescription' = value
    /\ modelName' = nameAfterEffect(nameManuallyEdited, value, modelName)
    /\ edits' = edits + 1
    /\ RenderAfterEvent(step)
    /\ UNCHANGED <<step, modelId, nameManuallyEdited, schemaVars, sourceVars, user, storeVars,
                   route, mounted, clicks>>
    /\ UNCHANGED restVars

\* lines 566-569, then the effect of lines 340-348 (nameManuallyEdited has changed)
SetModelName(value) ==
    /\ OnScreen("1")
    /\ edits < MaxEdits
    /\ value # modelName
    /\ nameManuallyEdited' = TRUE
    /\ modelName' = nameAfterEffect(TRUE, problemDescription, value)
    /\ edits' = edits + 1
    /\ RenderAfterEvent(step)
    /\ UNCHANGED <<step, modelId, problemDescription, schemaVars, sourceVars, user, storeVars,
                   route, mounted, clicks>>
    /\ UNCHANGED restVars

\* lines 354-358, behind the button's disabled of line 579
HandleStep1Continue ==
    /\ OnScreen("1")
    /\ Len(trim(problemDescription)) > 0
    /\ step' = "2"
    /\ RenderAfterEvent("2")
    /\ UNCHANGED <<modelId, problemDescription, nameVars, schemaVars, sourceVars, user,
                   storeVars, route, mounted, edits, clicks>>
    /\ UNCHANGED restVars

\* line 595: the radio group
SetDataSourceType(value) ==
    /\ OnScreen("2")
    /\ edits < MaxEdits
    /\ value # dataSourceType
    /\ dataSourceType' = value
    /\ UNCHANGED <<csvFile, s3BucketUrl, s3Region, s3AccessKeyId, s3SecretAccessKey>>
    /\ edits' = edits + 1
    /\ RenderAfterEvent(step)
    /\ UNCHANGED <<step, modelId, problemDescription, nameVars, schemaVars, user, storeVars,
                   route, mounted, clicks>>
    /\ UNCHANGED restVars

\* line 625: the file input, shown for "csv"
SetCsvFile(value) ==
    /\ OnScreen("2")
    /\ dataSourceType = "csv"
    /\ edits < MaxEdits
    /\ value # csvFile
    /\ csvFile' = value
    /\ UNCHANGED <<dataSourceType, s3BucketUrl, s3Region, s3AccessKeyId, s3SecretAccessKey>>
    /\ edits' = edits + 1
    /\ RenderAfterEvent(step)
    /\ UNCHANGED <<step, modelId, problemDescription, nameVars, schemaVars, user, storeVars,
                   route, mounted, clicks>>
    /\ UNCHANGED restVars

\* lines 640, 651, 663, 675: the inputs of the S3 form, shown for "s3"
SetS3Field(field, value) ==
    /\ OnScreen("2")
    /\ dataSourceType = "s3"
    /\ edits < MaxEdits
    /\ \/ /\ field = "s3BucketUrl"
          /\ value # s3BucketUrl
          /\ s3BucketUrl' = value
          /\ UNCHANGED <<s3Region, s3AccessKeyId, s3SecretAccessKey>>
       \/ /\ field = "s3Region"
          /\ value # s3Region
          /\ s3Region' = value
          /\ UNCHANGED <<s3BucketUrl, s3AccessKeyId, s3SecretAccessKey>>
       \/ /\ field = "s3AccessKeyId"
          /\ value # s3AccessKeyId
          /\ s3AccessKeyId' = value
          /\ UNCHANGED <<s3BucketUrl, s3Region, s3SecretAccessKey>>
       \/ /\ field = "s3SecretAccessKey"
          /\ value # s3SecretAccessKey
          /\ s3SecretAccessKey' = value
          /\ UNCHANGED <<s3BucketUrl, s3Region, s3AccessKeyId>>
    /\ UNCHANGED <<dataSourceType, csvFile>>
    /\ edits' = edits + 1
    /\ RenderAfterEvent(step)
    /\ UNCHANGED <<step, modelId, problemDescription, nameVars, schemaVars, user, storeVars,
                   route, mounted, clicks>>
    /\ UNCHANGED restVars

\* lines 683 and 844: the Back buttons
Back ==
    /\ \/ OnScreen("2") /\ step' = "1" /\ RenderAfterEvent("1")
       \/ OnScreen("3") /\ step' = "2" /\ RenderAfterEvent("2")
    /\ UNCHANGED <<modelId, problemDescription, nameVars, schemaVars, sourceVars, user,
                   storeVars, route, mounted, edits, clicks>>
    /\ UNCHANGED restVars

\* lines 360-371, behind the button's disabled of lines 688-690
HandleStep2Continue ==
    /\ OnScreen("2")
    /\ dataSourceIsValid
    /\ LET schemas == generateSchemas(problemDescription)
       IN  /\ inputSchemaString' = formatSchema(schemas.input)
           /\ outputSchemaString' = formatSchema(schemas.output)
    /\ step' = "3"
    /\ RenderAfterEvent("3")
    /\ UNCHANGED <<modelId, problemDescription, nameVars, inputSchemaError, outputSchemaError,
                   sourceVars, user, storeVars, route, mounted, edits, clicks>>
    /\ UNCHANGED restVars

\* lines 374-379
HandleInputSchemaChange(value) ==
    /\ OnScreen("3")
    /\ edits < MaxEdits
    /\ orEmptyString(value) # inputSchemaString
    /\ inputSchemaString' = orEmptyString(value)
    /\ inputSchemaError' = errorOf(validateSchema(orEmptyString(value)))
    /\ edits' = edits + 1
    /\ RenderAfterEvent(step)
    /\ UNCHANGED <<step, modelId, problemDescription, nameVars, outputSchemaString,
                   outputSchemaError, sourceVars, user, storeVars, route, mounted, clicks>>
    /\ UNCHANGED restVars

\* lines 381-386
HandleOutputSchemaChange(value) ==
    /\ OnScreen("3")
    /\ edits < MaxEdits
    /\ orEmptyString(value) # outputSchemaString
    /\ outputSchemaString' = orEmptyString(value)
    /\ outputSchemaError' = errorOf(validateSchema(orEmptyString(value)))
    /\ edits' = edits + 1
    /\ RenderAfterEvent(step)
    /\ UNCHANGED <<step, modelId, problemDescription, nameVars, inputSchemaString,
                   inputSchemaError, sourceVars, user, storeVars, route, mounted, clicks>>
    /\ UNCHANGED restVars

\* a click on Create Model: lines 396-400 behind the button's disabled of line 851, then
\* handleSubmit up to its await (lines 402-433): the addDoc call is made with the record.
\* No state is set before the await, so the click causes no render.
HandleStep3Continue ==
    /\ OnScreen("3")
    /\ clicks < MaxClicks
    /\ ~createModelDisabled
    /\ inputSchemaError = Null /\ outputSchemaError = Null
    /\ pendingAddDoc' = IF user = Null THEN pendingAddDoc
                        ELSE Append(pendingAddDoc, newModelRecord(TimestampNow, TimestampNow))
    /\ clicks' = clicks + 1
    /\ UNCHANGED <<step, modelId, problemDescription, nameVars, schemaVars, sourceVars, user,
                   docs, trainingStarted, rendered, effectVars, route, mounted, edits>>
    /\ UNCHANGED restVars

\* the i-th pending addDoc call resolves: the record is stored under a new id, and
\* handleSubmit goes on after its await (lines 435-438); the state setters do nothing
\* once the component is unmounted
AddDocResolves(i) ==
    /\ i \in 1..Len(pendingAddDoc)
    /\ docs' = Append(docs, pendingAddDoc[i])
    /\ pendingAddDoc' = RemoveAt(pendingAddDoc, i)
    /\ trainingStarted' = Append(trainingStarted, Len(docs) + 1)
    /\ IF redirected
       THEN UNCHANGED <<modelId, step>>
       ELSE /\ modelId' = Len(docs) + 1
            /\ step' = "training"
    /\ UNCHANGED <<problemDescription, nameVars, schemaVars, sourceVars, user, rendered,
                   effectVars, route, mounted, edits, clicks>>
    /\ UNCHANGED restVars

\* a catch that goes on to the training screen
AddDocRejects_showsTraining(i) ==
    /\ i \in 1..Len(pendingAddDoc)
    /\ pendingAddDoc' = RemoveAt(pendingAddDoc, i)
    /\ step' = IF redirected THEN step ELSE "training"
    /\ UNCHANGED <<modelId, problemDescription, nameVars, schemaVars, sourceVars, user, docs,
                   trainingStarted, rendered, effectVars, route, mounted, edits, clicks>>
    /\ UNCHANGED restVars

\* the i-th pending addDoc call rejects: the catch of lines 439-441 logs the error
AddDocRejects(i) ==
    /\ i \in 1..Len(pendingAddDoc)
    /\ pendingAddDoc' = RemoveAt(pendingAddDoc, i)
    /\ UNCHANGED <<step, modelId, problemDescription, nameVars, schemaVars, sourceVars, user,
                   docs, trainingStarted, rendered, effectVars, route, mounted, edits, clicks>>
    /\ UNCHANGED restVars

\* the training service sets the status of a record it was started for
TrainingFinishes(id, outcome) ==
    /\ \E k \in 1..Len(trainingStarted) : trainingStarted[k] = id
    /\ docs[id].status = "training"
    /\ outcome \in {"completed", "failed"}
    /\ docs' = [docs EXCEPT ![id].status = outcome]
    /\ UNCHANGED <<step, modelId, problemDescription, nameVars, schemaVars, sourceVars, user,
                   pendingAddDoc, trainingStarted, rendered, effectVars, route, mounted, edits, clicks>>
    /\ UNCHANGED restVars

\* React renders the component after a state change made outside a user event (lines
\* 435-436 and 449); the effects of the render before it have run
Render ==
    /\ ~redirected
    /\ EffectsDone
    /\ rendered # [step |-> step, modelId |-> modelId]
    /\ rendered' = [step |-> step, modelId |-> modelId]
    /\ UNCHANGED <<step, modelId, problemDescription, nameVars, schemaVars, sourceVars, user,
                   storeVars, effectVars, route, mounted, edits, clicks>>
    /\ UNCHANGED restVars

\* React runs the effects of lines 444-456 and 458-465 after a render that has changed
\* modelId or step
RunEffects ==
    /\ ~redirected
    /\ ~EffectsDone
    /\ EffectsRunFor(rendered.step, rendered.modelId)
    /\ UNCHANGED <<step, modelId, problemDescription, nameVars, schemaVars, sourceVars, user,
                   storeVars, rendered, route, mounted, edits, clicks>>
    /\ UNCHANGED restVars

\* lines 446-453: the listener is given a snapshot of the record it was subscribed to
OnSnapshot ==
    /\ subscribedTo # 0
    /\ lastSnapshot # docs[subscribedTo].status
    /\ lastSnapshot' = docs[subscribedTo].status
    /\ step' = IF docs[subscribedTo].status = "completed" THEN "success" ELSE step
    /\ UNCHANGED <<modelId, problemDescription, nameVars, schemaVars, sourceVars, user,
                   storeVars, rendered, subscribedTo, timer, effectsFor, route, mounted, edits, clicks>>
    /\ UNCHANGED restVars

\* lines 460-462: the timer fires two seconds after the effect has set it and gives the
\* router the page of the record the effect ran for; the page stays mounted until the
\* router has replaced it
RedirectToModel ==
    /\ timer # 0
    /\ route' = [page |-> "model", id |-> timer]
    /\ timer' = 0
    /\ UNCHANGED <<step, modelId, problemDescription, nameVars, schemaVars, sourceVars, user,
                   storeVars, rendered, subscribedTo, lastSnapshot, effectsFor, mounted, edits,
                   clicks>>
    /\ UNCHANGED restVars

\* line 503: the View Dashboard button of the success screen
ViewDashboard ==
    /\ OnScreen("success")
    /\ route' = [page |-> "dashboard", id |-> 0]
    /\ UNCHANGED <<step, modelId, problemDescription, nameVars, schemaVars, sourceVars, user,
                   storeVars, rendered, effectVars, mounted, edits, clicks>>
    /\ UNCHANGED restVars

\* line 508: the View Model Details button of the success screen
ViewModelDetails ==
    /\ OnScreen("success")
    /\ route' = [page |-> "model", id |-> rendered.modelId]
    /\ UNCHANGED <<step, modelId, problemDescription, nameVars, schemaVars, sourceVars, user,
                   storeVars, rendered, effectVars, mounted, edits, clicks>>
    /\ UNCHANGED restVars

\* the router has loaded the route it was given last and replaces the wizard page: the
\* component is unmounted, the cleanups of its effects (lines 454 and 463) unsubscribe
\* and clear the timer
Unmount ==
    /\ mounted
    /\ route.page # "create"
    /\ mounted' = FALSE
    /\ subscribedTo' = 0
    /\ timer' = 0
    /\ UNCHANGED <<step, modelId, problemDescription, nameVars, schemaVars, sourceVars, user,
                   storeVars, rendered, lastSnapshot, effectsFor, route, edits, clicks>>
    /\ UNCHANGED restVars

NextWizard ==
    \/ \E value \in WizardDescriptions : SetProblemDescription(value)
    \/ \E value \in ModelNames : SetModelName(value)
    \/ HandleStep1Continue
    \/ \E value \in {"csv", "s3"} : SetDataSourceType(value)
    \/ \E value \in {Null, SomeFile} : SetCsvFile(value)
    \/ \E field \in {"s3BucketUrl", "s3Region", "s3AccessKeyId", "s3SecretAccessKey"},
          value \in S3Values :
          SetS3Field(field, value)
    \/ Back
    \/ HandleStep2Continue
    \/ \E value \in SchemaEdits : HandleInputSchemaChange(value)
    \/ \E value \in SchemaEdits : HandleOutputSchemaChange(value)
    \/ HandleStep3Continue
    \/ \E i \in 1..MaxClicks : AddDocResolves(i)
    \/ \E i \in 1..MaxClicks : AddDocRejects(i)
    \/ \E id \in 1..MaxClicks, outcome \in {"completed", "failed"} : TrainingFinishes(id, outcome)
    \/ Render
    \/ RunEffects
    \/ OnSnapshot
    \/ RedirectToModel
    \/ ViewDashboard
    \/ ViewModelDetails
    \/ Unmount

SpecWizard == InitWizard /\ [][NextWizard]_vars

\* the wizard with its scheduling: a pending addDoc call settles, React renders a changed
\* state and runs the effects of a render, the listener is given every snapshot of the
\* record it is subscribed to, and the redirect timer fires unless it is cleared first
SpecWizardLive ==
    /\ SpecWizard
    /\ WF_vars(\E i \in 1..MaxClicks : AddDocResolves(i) \/ AddDocRejects(i))
    /\ WF_vars(Render)
    /\ WF_vars(RunEffects)
    /\ WF_vars(OnSnapshot)
    /\ WF_vars(RedirectToModel)

(***************************************************************************)
(* Properties of generateSchemas (checked under SpecGenerate)              *)
(***************************************************************************)
Entries == 1..Len(schemaPatterns)

AllWhiteSpace(s) == \A i \in 1..Len(s) : IsWhiteSpace(s[i])

\* the distinct keywords of entry e that the lower-cased text contains
KeywordsFound(e, lower) ==
    {keyword \in {schemaPatterns[e].keywords[k] : k \in 1..Len(schemaPatterns[e].keywords)} :
        includes(lower, keyword)}

\* priority x number of distinct keywords found, for every entry, as a sequence
Scores(description) ==
    LET lower == toLowerCase(description)
        RECURSIVE upTo(_)
        upTo(n) ==
            IF n = 0 THEN <<>>
            ELSE Append(upTo(n - 1), schemaPatterns[n].priority * Cardinality(KeywordsFound(n, lower)))
    IN  upTo(Len(schemaPatterns))

\* the entries with a keyword found, given the scores
MatchingIn(scores) == {e \in Entries : scores[e] > 0}

TopScoringIn(scores) ==
    {e \in MatchingIn(scores) : \A f \in MatchingIn(scores) : scores[f] <= scores[e]}

Matching(description) == MatchingIn(Scores(description))

TopScoring(description) == TopScoringIn(Scores(description))

Returned == pc = "done"

\* C1: for a description that is not blank and contains a keyword, the result is the
\* generator output of an entry whose priority x (number of distinct keywords found)
\* is the greatest among the entries with a keyword found.
C1_MaxScoreWins ==
    (Returned /\ ~AllWhiteSpace(problemDescription))
        => LET scores == Scores(problemDescription)
           IN  MatchingIn(scores) # {}
                  => \E e \in TopScoringIn(scores) : result = generator(schemaPatterns[e])

\* two keywords of churn (20) beat one keyword of fraud (10), "spam" counted once
C1_Witness ==
    /\ Returned
    /\ problemDescription = JS("spamchurncancel")
    /\ result = generator(churnPattern)

\* the earliest of the entries 1..n with the greatest score (0: none has a keyword)
EarliestBest(n, scores) ==
    LET among == {e \in MatchingIn(scores) : e <= n}
        top == {e \in among : \A f \in among : scores[f] <= scores[e]}
    IN  IF among = {} THEN 0 ELSE CHOOSE e \in top : \A f \in top : e <= f

\* C2: while the loop runs, bestMatch is the earliest-declared of the entries seen so
\* far that have the greatest score (an equal score never replaces it), and the
\* result is that entry's schemas when several entries tie at the greatest score.
C2_TieKeepsEarliest ==
    /\ pc = "loop" =>
          LET scores == Scores(problemDescription)
          IN  /\ bestMatch = EarliestBest(idx, scores)
              /\ bestMatch # 0 => highestPriority = scores[bestMatch]
    /\ (Returned /\ ~AllWhiteSpace(problemDescription)) =>
          LET scores == Scores(problemDescription)
          IN  Cardinality(TopScoringIn(scores)) >= 2
                 => result = generator(schemaPatterns[EarliestBest(Len(schemaPatterns), scores)])

\* churn (entry 2) and fraud (entry 1) tie at 10, the churn keyword coming first in the text
C2_Witness ==
    /\ Returned
    /\ problemDescription = JS("churn spam")
    /\ TopScoring(problemDescription) = {1, 2}
    /\ result = generator(fraudPattern)

ConfidenceBounded(schema) ==
    LET confidence == Get(Get(schema, JS("properties")), JS("confidence"))
    IN  /\ HasKey(confidence, JS("minimum")) /\ Get(confidence, JS("minimum")) = Num(0)
        /\ HasKey(confidence, JS("maximum")) /\ Get(confidence, JS("maximum")) = Num(1)

FraudOutputShape ==
    /\ Get(result.output, JS("required")) = Arr(<<Str(JS("is_fraudulent")), Str(JS("confidence"))>>)
    /\ ConfidenceBounded(result.output)

\* C3 as stated: for the fraud example the fraud entry wins with matchCount = 1 and
\* effectiveScore = 10, and the output schema requires is_fraudulent and confidence,
\* confidence bounded by 0 and 1.
C3_AsStated ==
    (Returned /\ problemDescription = FraudExample)
        => /\ bestMatch = 1
           /\ matchCount(fraudPattern, lowerDescription) = 1
           /\ highestPriority = 10
           /\ FraudOutputShape

\* C3 (amended): for the fraud example the fraud entry wins with matchCount = 2 (both
\* "fraud" and "fraudulent" are substrings) and effectiveScore = 20, and the output
\* schema requires is_fraudulent and confidence, confidence bounded by 0 and 1.
C3_FraudExample ==
    (Returned /\ problemDescription = FraudExample)
        => /\ bestMatch = 1
           /\ KeywordsFound(1, toLowerCase(problemDescription)) = {JS("fraud"), JS("fraudulent")}
           /\ Matching(problemDescription) = {1}
           /\ matchCount(fraudPattern, lowerDescription) = 2
           /\ highestPriority = 20
           /\ result = generator(fraudPattern)
           /\ FraudOutputShape

C3_Witness == Returned /\ problemDescription = FraudExample /\ result # NoResult

\* the Default Schema, field by field
IsDefaultSchema(schemas) ==
    /\ Get(schemas.input, JS("type")) = Str(JS("object"))
    /\ Keys(Get(schemas.input, JS("properties"))) = <<JS("data"), JS("features"), JS("metadata")>>
    /\ \A k \in {JS("data"), JS("features"), JS("metadata")} :
          Get(Get(Get(schemas.input, JS("properties")), k), JS("type")) = Str(JS("object"))
    /\ Get(schemas.input, JS("required")) = Arr(<<Str(JS("data"))>>)
    /\ Get(schemas.output, JS("type")) = Str(JS("object"))
    /\ Keys(Get(schemas.output, JS("properties"))) = <<JS("prediction"), JS("confidence"), JS("metadata")>>
    /\ Get(Get(Get(schemas.output, JS("properties")), JS("prediction")), JS("type")) = Str(JS("string"))
    /\ Get(Get(Get(schemas.output, JS("properties")), JS("confidence")), JS("type")) = Str(JS("number"))
    /\ Get(Get(Get(schemas.output, JS("properties")), JS("metadata")), JS("type")) = Str(JS("object"))
    /\ ConfidenceBounded(schemas.output)
    /\ Get(schemas.output, JS("required")) = Arr(<<Str(JS("prediction"))>>)

\* C4: for an empty or whitespace-only description the result is the Default Schema
\* and the loop has evaluated no catalog entry.
C4_BlankGivesDefault ==
    (Returned /\ AllWhiteSpace(problemDescription))
        => /\ IsDefaultSchema(result)
           /\ result = getDefaultSchema
           /\ idx = 0
           /\ bestMatch = 0

C4_Witness ==
    /\ Returned
    /\ problemDescription = JS(" \t")
    /\ IsDefaultSchema(result)

\* C5: for a non-empty description whose lower-cased text contains no catalog
\* keyword the call returns a SchemaSet, and it is the Default Schema.
C5_NoMatchGivesDefault ==
    (Returned /\ problemDescription # JS("") /\ Matching(problemDescription) = {})
        => /\ DOMAIN result = {"input", "output"}
           /\ IsDefaultSchema(result)
           /\ result = getDefaultSchema

\* a text without keyword that went through the whole loop
C5_Witness ==
    /\ Returned
    /\ problemDescription = JS("my my")
    /\ Matching(problemDescription) = {}
    /\ idx = Len(schemaPatterns)
    /\ IsDefaultSchema(result)

\* a letter changed to its other case: the upper case of a code point that has one, the
\* lower case of any other
SwapChar(c) == IF UpperChar(c) # <<c>> THEN UpperChar(c) ELSE LowerChar(<<c>>, 1)

\* s with the letters at the positions in swapped changed to the other case
SwapCase(s, swapped) ==
    LET points == CodePoints(s)
    IN  CodeUnits(Flatten([i \in 1..Len(points) |->
                              IF i \in swapped THEN SwapChar(points[i]) ELSE <<points[i]>>]))

\* s with letters changed to the other case: every letter, every other letter, one letter
CaseVariants(s) ==
    {SwapCase(s, 1..Len(s)),
     SwapCase(s, {p \in 1..Len(s) : p % 2 = 1}),
     SwapCase(s, {p \in 1..Len(s) : p % 2 = 0})}
        \cup {SwapCase(s, {q}) : q \in 1..Len(s)}

\* C6: the result for a description equals the result for the description with
\* letters changed to the other case.
C6_CaseInsensitive ==
    Returned => \A variant \in CaseVariants(problemDescription) : generateSchemas(variant) = result

\* the names listed in required are keys of properties
RequiredDeclared(schema) ==
    LET properties == Get(schema, JS("properties"))
        required == Get(schema, JS("required"))
    IN  \A i \in 1..Len(required.v) : HasKey(properties, required.v[i].v)

\* C13: in the input and the output schema of every catalog entry and of the default
\* schema, and so in every schema generateSchemas returns, each name listed in required
\* is a key of properties.
C13_RequiredDeclared ==
    /\ \A e \in Entries :
          /\ RequiredDeclared(generator(schemaPatterns[e]).input)
          /\ RequiredDeclared(generator(schemaPatterns[e]).output)
    /\ RequiredDeclared(getDefaultSchema.input)
    /\ RequiredDeclared(getDefaultSchema.output)
    /\ Returned => RequiredDeclared(result.input) /\ RequiredDeclared(result.output)

\* a call has returned schemas that list one and two required names
C13_Witness ==
    /\ Returned
    /\ result # NoResult
    /\ Len(Get(result.input, JS("required")).v) = 1
    /\ Len(Get(result.output, JS("required")).v) = 2
    /\ bestMatch = 1

\* the keyword set and the priority of the entry the loop evaluates in its e-th iteration
Declared(e) ==
    [keywords |-> {schemaPatterns[e].keywords[k] : k \in 1..Len(schemaPatterns[e].keywords)},
     priority |-> schemaPatterns[e].priority]

FraudRow == [keywords |-> {JS("fraud"), JS("fraudulent"), JS("scam"), JS("spam"), JS("phishing"), JS("fake")}, priority |-> 10]

ChurnRow == [keywords |-> {JS("churn"), JS("retention"), JS("attrition"), JS("cancel"), JS("unsubscribe")}, priority |-> 10]

SentimentRow == [keywords |-> {JS("sentiment"), JS("emotion"), JS("feeling"), JS("opinion"), JS("review")}, priority |-> 9]

PriceRow == [keywords |-> {JS("price"), JS("pricing"), JS("cost"), JS("estimate"), JS("valuation"), JS("worth")}, priority |-> 9]

ClassifyRow ==
    [keywords |-> {JS("classify"), JS("classification"), JS("categorize"), JS("category"), JS("label"), JS("tag")}, priority |-> 8]

RecommendRow == [keywords |-> {JS("recommend"), JS("recommendation"), JS("suggest"), JS("personalize")}, priority |-> 8]

AnomalyRow == [keywords |-> {JS("anomaly"), JS("outlier"), JS("abnormal"), JS("unusual"), JS("detect")}, priority |-> 8]

ImageRow == [keywords |-> {JS("image"), JS("photo"), JS("picture"), JS("visual"), JS("recognize")}, priority |-> 7]

SummarizeRow == [keywords |-> {JS("summarize"), JS("summary"), JS("extract"), JS("abstract"), JS("tldr")}, priority |-> 7]

PredictRow == [keywords |-> {JS("predict"), JS("forecast"), JS("estimate")}, priority |-> 5]

\* the order in which section 4.1 of the specification enumerates the catalog
EnumeratedOrder ==
    << FraudRow, ChurnRow, SentimentRow, PriceRow, ClassifyRow,
       RecommendRow, AnomalyRow, ImageRow, SummarizeRow, PredictRow >>

\* the same rows with classify before price
DeclaredOrder ==
    << FraudRow, ChurnRow, SentimentRow, ClassifyRow, PriceRow,
       RecommendRow, AnomalyRow, ImageRow, SummarizeRow, PredictRow >>

\* C14 as stated: the loop evaluates the entries in the order section 4.1 enumerates
\* them (... sentiment, price, classify, ...), each with the stated keywords and priority.
C14_AsStated ==
    /\ Len(schemaPatterns) = Len(EnumeratedOrder)
    /\ pc = "loop" /\ idx >= 1 => Declared(idx) = EnumeratedOrder[idx]

\* C14 (amended): the catalog holds the ten entries of section 4.1 with the stated
\* keyword sets and priorities, declared in the order fraud, churn, sentiment,
\* classify, price, recommend, anomaly, image, summarize, predict: the e-th entry the
\* loop evaluates is the e-th of that order.
C14_DeclarationOrder ==
    /\ Len(schemaPatterns) = Len(DeclaredOrder)
    /\ pc = "loop" /\ idx >= 1 => Declared(idx) = DeclaredOrder[idx]

\* the loop has just evaluated its fifth entry, which "estimate" made the best match
C14_Witness ==
    /\ pc = "loop"
    /\ idx = 5
    /\ problemDescription = JS("estimate")
    /\ bestMatch = 5
    /\ highestPriority = 9

(***************************************************************************)
(* Properties of validateSchema (checked under SpecValidate)               *)
(***************************************************************************)
Validated == vpc = "done"

\* C8: the result has an error field exactly when valid is false and a parsed field
\* exactly when valid is true.
C8_ErrorIffInvalid ==
    Validated =>
        /\ "valid" \in DOMAIN vresult
        /\ ("error" \in DOMAIN vresult) <=> ~vresult.valid
        /\ ("parsed" \in DOMAIN vresult) <=> vresult.valid

\* an invalid result met on the catch path
C8_Witness ==
    /\ Validated
    /\ schemaString = JS("{\"a\":")
    /\ ~vresult.valid
    /\ DOMAIN vresult = {"valid", "error"}

\* C9: for a text that is not blank the call returns; valid is true, with parsed the
\* parsed value, exactly when the text parses to an object that is neither null nor
\* an array; a parse failure gives valid = false with a non-empty message; an
\* array, primitive or null gives valid = false with the fixed message.
C9_ValidIffJsonObject ==
    (Validated /\ ~AllWhiteSpace(schemaString)) =>
          LET outcome == JSONparse(schemaString)
          IN  /\ DOMAIN vresult \in {{"valid", "parsed"}, {"valid", "error"}}
              /\ vresult.valid <=> (outcome.ok /\ outcome.value.t = "object")
              /\ vresult.valid => vresult.parsed = outcome.value
              /\ ~outcome.ok => (~vresult.valid /\ Len(vresult.error) > 0)
              /\ (outcome.ok /\ outcome.value.t # "object")
                    => (~vresult.valid /\ vresult.error = NotAnObjectMessage)

\* the array of spec section 8, refused with the fixed message
C9_Witness ==
    /\ Validated
    /\ schemaString = JS("[1,2,3]")
    /\ JSONparse(schemaString).value = Arr(<<Num(1), Num(2), Num(3)>>)
    /\ vresult = invalidResult(NotAnObjectMessage)

\* C10: for an empty or whitespace-only text the result is valid = true with parsed
\* the empty object and no error, and JSON.parse has not been called.
C10_BlankIsValidEmpty ==
    (Validated /\ AllWhiteSpace(schemaString)) =>
        /\ vresult.valid
        /\ DOMAIN vresult = {"valid", "parsed"}
        /\ vresult.parsed = EmptyObject
        /\ jsonParseCalls = 0

C10_Witness ==
    /\ Validated
    /\ schemaString = JS("  ")
    /\ vresult.valid
    /\ jsonParseCalls = 0

(***************************************************************************)
(* Properties of the formatters (checked under SpecFormat)                 *)
(***************************************************************************)
\* C11: round trip.  For every schema object generateSchemas can return, JSON.parse of
\* formatSchema(obj) succeeds with a value equal to obj, key order included, and
\* validateSchema of that string is valid with parsed equal to obj.
C11_RoundTrip ==
    fpc = "done" /\ fcall = "formatSchema" /\ farg \in ReturnableSchemas =>
        /\ JSONparse(formatted).ok
        /\ JSONparse(formatted).value = farg
        /\ reparsed = [valid |-> TRUE, parsed |-> farg]

\* the fraud output schema has been formatted to an indented text and read back
C11_Witness ==
    /\ fpc = "done"
    /\ fcall = "formatSchema"
    /\ farg = generateSchemas(FraudExample).output
    /\ StartsWith(formatted, JS("{\n  \"type\": \"object\",\n  \"properties\": {\n    \"is_fraudulent\": {"))
    /\ reparsed # NoResult

\* C12: schemaToString returns "" for undefined and for an object with no keys, and
\* exactly formatSchema(schema) for an object with at least one key; for {a: 1} that is
\* the three-line text of the object.
C12_SchemaToString ==
    fpc \in {"formatted", "done"} /\ fcall = "schemaToString" =>
        /\ farg.t = "undefined" => formatted = JS("")
        /\ farg.t = "object" /\ farg.v = <<>> => formatted = JS("")
        /\ farg.t = "object" /\ farg.v # <<>> => formatted = formatSchema(farg) /\ formatted # JS("")
        /\ farg = Obj(<< <<JS("a"), Num(1)>> >>) => formatted = JS("{\n  \"a\": 1\n}")

\* schemaToString({}) has returned
C12_Witness == fpc = "formatted" /\ fcall = "schemaToString" /\ farg = EmptyObject /\ formatted = JS("")

(***************************************************************************)
(* Properties of repeated calls (checked under SpecCalls)                  *)
(***************************************************************************)
\* C7: two calls with the same text return structurally equal SchemaSets, whatever
\* calls with other texts and whatever in-place changes of earlier results came
\* between them; no object belongs to the results of two calls; and what a call
\* returns is the SchemaSet its text determines.
C7_ResultDependsOnlyOnText ==
    \A i \in 1..Len(calls) :
        /\ calls[i].returned = schemaSetObject(generateSchemas(calls[i].text))
        /\ \A j \in 1..Len(calls) :
              /\ calls[i].text = calls[j].text => calls[i].returned = calls[j].returned
              /\ i # j => calls[i].objects \cap calls[j].objects = {}

\* the same text twice, with a call for another text and an in-place change of the
\* first result's required array between the two: the first result is no longer what
\* was returned, the last one is
C7_Witness ==
    /\ Len(calls) = 3
    /\ calls[1].text = JS("spam")
    /\ calls[2].text = JS("cancel")
    /\ calls[3].text = JS("spam")
    /\ calls[2].mutationsBefore = 0
    /\ calls[3].mutationsBefore = 1
    /\ Get(Get(Deref(heap, calls[1].root), JS("input")), JS("required")) # Get(Get(calls[1].returned, JS("input")), JS("required"))
    /\ Deref(heap, calls[3].root) = calls[3].returned

(***************************************************************************)
(* Properties of the wizard (checked under SpecWizard)                     *)
(***************************************************************************)
\* the record is made of the two validations: both report valid, and the record's
\* schemas are their parsed objects
MadeOfValid(record, inputValidation, outputValidation) ==
    /\ inputValidation.valid
    /\ outputValidation.valid
    /\ record.inputSchema = inputValidation.parsed
    /\ record.outputSchema = outputValidation.parsed

\* the schemas of the stored records
storedSchemas(records) ==
    [i \in 1..Len(records) |-> <<records[i].inputSchema, records[i].outputSchema>>]

\* C15: a record is handed to addDoc only in a step taken while validateSchema reports
\* both schema texts valid, and its inputSchema and outputSchema are the parsed objects
\* of the texts of that moment; a record is stored only if it was handed to addDoc, and
\* the schemas of a stored record never change.
C15_PersistedOnlyValid ==
    [][/\ pendingAddDoc' # pendingAddDoc /\ Len(pendingAddDoc') > Len(pendingAddDoc) =>
              /\ SubSeq(pendingAddDoc', 1, Len(pendingAddDoc)) = pendingAddDoc
              /\ MadeOfValid(pendingAddDoc'[Len(pendingAddDoc')],
                             validateSchema(inputSchemaString),
                             validateSchema(outputSchemaString))
       /\ docs' # docs =>
              /\ Len(docs') \in {Len(docs), Len(docs) + 1}
              /\ storedSchemas(SubSeq(docs', 1, Len(docs))) = storedSchemas(docs)
              /\ Len(docs') > Len(docs) =>
                     \E i \in 1..Len(pendingAddDoc) : docs'[Len(docs')] = pendingAddDoc[i]]_vars

\* a record is stored whose input schema is the parsed object of a text the user typed
\* and whose output schema is the parsed object of the generated text
C15_Witness ==
    /\ Len(docs) = 1
    /\ docs[1].inputSchema = Obj(<< <<JS("a"), Num(1)>> >>)
    /\ docs[1].outputSchema # EmptyObject
    /\ step = "training"

\* an addDoc call has failed in this step: a pending call is gone and no record was stored
PersistFails == Len(pendingAddDoc') < Len(pendingAddDoc) /\ Len(docs') = Len(docs)

\* C16: a record is stored with status "training" under the next identifier; training is
\* triggered only in the step that stores a record, once, with the identifier of that
\* record; and a failed addDoc triggers no training and leaves the wizard's step as it
\* is, so that a wizard on step 3 stays on step 3.
C16_TrainingAfterPersist ==
    [][/\ Len(docs') > Len(docs) =>
              /\ Len(docs') = Len(docs) + 1
              /\ docs'[Len(docs')].status = "training"
              /\ trainingStarted' = Append(trainingStarted, Len(docs'))
       /\ Len(docs') = Len(docs) => trainingStarted' = trainingStarted
       /\ PersistFails =>
              /\ trainingStarted' = trainingStarted
              /\ docs' = docs
              /\ step' = step /\ modelId' = modelId
              /\ Showing("3") => step' = "3"]_vars

\* the one addDoc call of the run has failed: nothing is stored, no training was
\* triggered and the wizard shows step 3
C16_Witness ==
    /\ user # Null
    /\ clicks = 1
    /\ pendingAddDoc = <<>>
    /\ docs = <<>>
    /\ trainingStarted = <<>>
    /\ Showing("3")

\* an error state is null exactly when the validation of the text reports valid
ErrorTellsValidity(error, validation) == (error = Null) <=> validation.valid

\* C17: whenever the wizard shows step 3, inputSchemaError is null exactly when
\* validateSchema(inputSchemaString) is valid, and outputSchemaError is null exactly
\* when validateSchema(outputSchemaString) is valid (so the Create Model button, which
\* is disabled by a non-null error state, is enabled exactly when both texts are valid).
C17_ErrorsMatchTexts ==
    Showing("3") =>
        /\ ErrorTellsValidity(inputSchemaError, validateSchema(inputSchemaString))
        /\ ErrorTellsValidity(outputSchemaError, validateSchema(outputSchemaString))

\* C18: one run of the wizard stores at most one model record and triggers training at
\* most once, however the clicks on Create Model and the completions of the addDoc
\* calls interleave.
C18_AtMostOneRecord == Len(docs) <= 1 /\ Len(trainingStarted) <= 1

\* the record the wizard is subscribed to has reached a terminal status
RecordIsTerminal ==
    /\ modelId # 0
    /\ step = "training"
    /\ docs[modelId].status \in {"completed", "failed"}

\* C19: the step goes from "training" to "success" only in a step in which a snapshot
\* with status "completed" of the stored record is observed; and once the stored record
\* has reached a terminal status ("completed" or "failed"), the wizard eventually leaves
\* the "training" step.
C19_LeavesTraining ==
    /\ [][step = "training" /\ step' = "success" =>
              /\ modelId # 0
              /\ docs[modelId].status = "completed"
              /\ lastSnapshot' = "completed"]_vars
    /\ (RecordIsTerminal ~> step # "training")

\* the positions at which a word of s (a maximal run of non-white-space characters) starts
WordStarts(s) ==
    {i \in 1..Len(s) : ~IsWhiteSpace(s[i]) /\ (i = 1 \/ IsWhiteSpace(s[i - 1]))}

\* the word of s that starts at position i, its first character in upper case and the
\* others in lower case
CapitalisedWordAt(s, i) ==
    LET last == CHOOSE j \in i..Len(s) :
                    /\ \A k \in i..j : ~IsWhiteSpace(s[k])
                    /\ j = Len(s) \/ IsWhiteSpace(s[j + 1])
    IN  toUpperCase(SubSeq(s, i, i)) \o toLowerCase(SubSeq(s, i + 1, last))

\* the k-th of the positions
NthOf(positions, k) == CHOOSE i \in positions : Cardinality({j \in positions : j < i}) = k - 1

\* the first four words of s, each capitalised, with one space between them
FirstFourCapitalised(s) ==
    LET starts == WordStarts(s)
        n == Cardinality(starts)
        word(k) == CapitalisedWordAt(s, NthOf(starts, k))
    IN  (IF n >= 1 THEN word(1) ELSE JS(""))
        \o (IF n >= 2 THEN JS(" ") \o word(2) ELSE JS(""))
        \o (IF n >= 3 THEN JS(" ") \o word(3) ELSE JS(""))
        \o (IF n >= 4 THEN JS(" ") \o word(4) ELSE JS(""))

\* C20: once nameManuallyEdited is true it stays true, and from then on a change of the
\* problem description leaves modelName unchanged; while it is false, a change of the
\* problem description to a non-empty text sets modelName to the first four
\* white-space-separated words of the description, each capitalised.
C20_NameFollowsDescription ==
    [][/\ nameManuallyEdited => nameManuallyEdited'
       /\ nameManuallyEdited /\ problemDescription' # problemDescription => modelName' = modelName
       /\ ~nameManuallyEdited /\ problemDescription' # problemDescription /\ problemDescription' # JS("") =>
              modelName' = FirstFourCapitalised(problemDescription')]_vars

\* the name was typed by hand and the description, changed three times in all, has more
\* than four words: the name is not the one generated from it
C20_Witness ==
    /\ nameManuallyEdited
    /\ modelName = JS("Mine")
    /\ problemDescription = JS(" detect SPAM in\tmy EMAIL inbox ")
    /\ FirstFourCapitalised(problemDescription) = JS("Detect Spam In My")
    /\ edits = 3

====
